---- MODULE Spec2Model ----
(***************************************************************************)
(* Constraint generation of the leo compiler                               *)
(* (src/aleo_program/constraints.rs): ResolvedProgram walks a program tree *)
(* and drives the gadget library (Boolean, UInt32) over a constraint       *)
(* system.  The constraint system is modelled as the sequence of gates     *)
(* allocated so far; a panic (unwrap, unimplemented!, index out of range)  *)
(* is modelled as a fatal condition that stops the pass.                   *)
(***************************************************************************)
EXTENDS Integers, Sequences, FiniteSets, TLC

VARIABLES
    program,             \* the Program handed to generate_constraints
    argument,            \* std::env::args().nth(1)
    resolved_variables,  \* ResolvedProgram.resolved_variables
    cs,                  \* the constraint system: gates allocated so far
    pc,                  \* number of top-level statements fully processed
    status,              \* "start", "running", "done" or "failed"
    error,               \* the fatal condition that stopped the pass
    last,                \* what the most recent enforce_statement call did
    auth_token,          \* Api.auth_token
    tokens_given,        \* the tokens handed to the Api: by new, then by each set_auth_token
    request,             \* the request the latest run_route built
    response,            \* the response it received
    output               \* what the latest run_route returned

constraint_vars == <<program, argument, resolved_variables, cs, pc, status, error, last>>
api_vars == <<auth_token, tokens_given, request, response, output>>
vars == <<program, argument, resolved_variables, cs, pc, status, error, last,
          auth_token, tokens_given, request, response, output>>

(***************************************************************************)
(* Fatal conditions.  Every one is a panic in the code; the names are the  *)
(* kinds the panics fall into.                                             *)
(***************************************************************************)
NoError == ""
TypeMismatch == "TypeMismatch"
UndefinedStruct == "UndefinedStruct"
UndefinedName == "UndefinedName"
FieldMismatch == "FieldMismatch"
Unsupported == "Unsupported"
IndexOutOfRange == "IndexOutOfRange"
MissingWitness == "MissingWitness"
GateAllocationFailure == "GateAllocationFailure"

(***************************************************************************)
(* Gadget values.  A Boolean is a constant or an allocated bit (plain or   *)
(* negated); an allocated bit is identified by the position of its gate in *)
(* the constraint system.  A UInt32 is a constant or an allocated word.    *)
(***************************************************************************)
BooleanConstant(b) == [kind |-> "Constant", value |-> b, variable |-> 0]
BooleanIs(b, v) == [kind |-> "Is", value |-> b, variable |-> v]
BooleanNot(b, v) == [kind |-> "Not", value |-> b, variable |-> v]

\* Boolean::get_value
get_value(b) == IF b.kind = "Not" THEN ~b.value ELSE b.value

\* A u32 is held as its two 16-bit halves, value = hi * 65536 + lo, so that
\* every value of 0 .. 2^32 - 1 has one representation.
\* The u32 of a number of 0 .. 2^31 - 1
U32(n) == [hi |-> n \div 65536, lo |-> n % 65536]

\* u32 as usize, for an index: the same number.  The usize of the program
\* are these and the lengths of its arrays, held as two halves as well.
as_usize(w) == [hi |-> w.hi, lo |-> w.lo]

\* a < b and a <= b on two halves
Less(a, b) == a.hi < b.hi \/ (a.hi = b.hi /\ a.lo < b.lo)
AtMost(a, b) == a.hi < b.hi \/ (a.hi = b.hi /\ a.lo <= b.lo)

\* The number of a usize below 2^31, as a position of a sequence
Position(w) == w.hi * 65536 + w.lo

\* u32::wrapping_add, wrapping_sub: the sum and the difference modulo 2^32
wrapping_add(a, b) ==
    [hi |-> (a.hi + b.hi + ((a.lo + b.lo) \div 65536)) % 65536,
     lo |-> (a.lo + b.lo) % 65536]

wrapping_sub(a, b) ==
    [hi |-> (a.hi - b.hi + ((a.lo - b.lo) \div 65536)) % 65536,
     lo |-> (a.lo - b.lo) % 65536]

\* The product of two halves modulo 2^16, and the high half of their product
MulHalfLow(x, y) == (x * (y % 256) + ((x * (y \div 256)) % 256) * 256) % 65536
MulHalfHigh(x, y) ==
    ((x * (y \div 256)) \div 256)
        + ((x * (y % 256) + ((x * (y \div 256)) % 256) * 256) \div 65536)

\* u32::wrapping_mul: the product modulo 2^32
wrapping_mul(a, b) ==
    [hi |-> (MulHalfHigh(a.lo, b.lo) + MulHalfLow(a.hi, b.lo)
                + MulHalfLow(a.lo, b.hi)) % 65536,
     lo |-> MulHalfLow(a.lo, b.lo)]

\* The quotient of a of 2^31 .. 2^32 - 1 by b of 1 .. 2^31 - 1, from the
\* quotients and remainders of 2^31 - 1 and of a - 2^31
DivideHigh(low, b) ==
    wrapping_add(wrapping_add(U32(2147483647 \div b), U32(low \div b)),
                 U32(IF (2147483647 % b) + 1 >= b - (low % b) THEN 1 ELSE 0))

\* The quotient of two u32, the divisor not 0
divide(a, b) ==
    IF b.hi >= 32768
    THEN U32(IF a.hi > b.hi \/ (a.hi = b.hi /\ a.lo >= b.lo) THEN 1 ELSE 0)
    ELSE IF a.hi < 32768
    THEN U32((a.hi * 65536 + a.lo) \div (b.hi * 65536 + b.lo))
    ELSE DivideHigh((a.hi - 32768) * 65536 + a.lo, b.hi * 65536 + b.lo)

\* u32::wrapping_pow: the power modulo 2^32, by squaring
RECURSIVE wrapping_pow(_, _)
wrapping_pow(a, e) ==
    IF e.hi = 0 /\ e.lo = 0 THEN U32(1)
    ELSE IF e.lo % 2 = 1
    THEN wrapping_mul(a, wrapping_pow(a, [e EXCEPT !.lo = @ - 1]))
    ELSE wrapping_pow(wrapping_mul(a, a),
                      [hi |-> e.hi \div 2, lo |-> (e.lo \div 2) + (e.hi % 2) * 32768])

\* fmt::Display for u32: the decimal digits
DisplayU32(w) ==
    IF w.hi < 32768 THEN ToString(w.hi * 65536 + w.lo)
    ELSE ToString((w.hi \div 10) * 65536 + (((w.hi % 10) * 65536 + w.lo) \div 10))
         \o ToString(((w.hi % 10) * 65536 + w.lo) % 10)

UInt32Constant(n) == [constant |-> TRUE, value |-> n, variable |-> 0]
UInt32Allocated(n, v) == [constant |-> FALSE, value |-> n, variable |-> v]

Gate(kind, label) == [kind |-> kind, label |-> label]

\* Results of the gadget calls and of the resolvers: the constraint system
\* after the call, the fatal condition raised (NoError if none), and the value.
NoBoolean == [kind |-> "None", value |-> FALSE, variable |-> 0]
NoUInt32 == [constant |-> TRUE, value |-> U32(0), variable |-> 0]
NoValue == [t |-> "None"]

Ok(s, v) == [cs |-> s, err |-> NoError, val |-> v]
Fail(s, e) == [cs |-> s, err |-> e, val |-> NoValue]
OkB(s, b) == [cs |-> s, err |-> NoError, b |-> b]
FailB(s, e) == [cs |-> s, err |-> e, b |-> NoBoolean]
OkU(s, u) == [cs |-> s, err |-> NoError, u |-> u]
FailU(s, e) == [cs |-> s, err |-> e, u |-> NoUInt32]

(***************************************************************************)
(* ResolvedValue                                                           *)
(***************************************************************************)
RBoolean(b) == [t |-> "Boolean", boolean |-> b]
RBooleanArray(a) == [t |-> "BooleanArray", booleans |-> a]
RFieldElement(u) == [t |-> "FieldElement", field |-> u]
RFieldElementArray(a) == [t |-> "FieldElementArray", fields |-> a]
RStructDefinition(s) == [t |-> "StructDefinition", struct |-> s]
RStructExpression(v, m) == [t |-> "StructExpression", variable |-> v, members |-> m]
RFunction(f) == [t |-> "Function", function |-> f]

(***************************************************************************)
(* The command-line argument read by the witness stand-in.                 *)
(***************************************************************************)
\* The text of an argument is the sequence of its characters.
NoArgument == [given |-> FALSE, text |-> <<>>]
Argument(s) == [given |-> TRUE, text |-> s]

\* The defaults of unwrap_or, "true" and "1"
DefaultBool == <<"t", "r", "u", "e">>
DefaultU32 == <<"1">>

\* str::parse::<bool>: exactly "true" and "false" parse.
ParseBool(s) ==
    IF s = <<"t", "r", "u", "e">> THEN [ok |-> TRUE, value |-> TRUE]
    ELSE IF s = <<"f", "a", "l", "s", "e">> THEN [ok |-> TRUE, value |-> FALSE]
    ELSE [ok |-> FALSE, value |-> FALSE]

\* char::to_digit(10): the digit of a character, 10 for any other character
to_digit(c) ==
    CASE c = "0" -> 0 [] c = "1" -> 1 [] c = "2" -> 2 [] c = "3" -> 3
      [] c = "4" -> 4 [] c = "5" -> 5 [] c = "6" -> 6 [] c = "7" -> 7
      [] c = "8" -> 8 [] c = "9" -> 9 [] OTHER -> 10

\* The loop of u32::from_str_radix(_, 10) from character i on, result the
\* number read so far: a character that is no digit and a number past
\* 2^32 - 1 (checked_mul, checked_add) are errors.
RECURSIVE from_str_radix(_, _, _)
from_str_radix(s, i, result) ==
    IF i > Len(s) THEN [ok |-> TRUE, value |-> result]
    ELSE IF to_digit(s[i]) = 10 THEN [ok |-> FALSE, value |-> U32(0)]
    ELSE IF \/ Less(U32(429496729), result)
            \/ (result = U32(429496729) /\ to_digit(s[i]) > 5)
    THEN [ok |-> FALSE, value |-> U32(0)]
    ELSE from_str_radix(s, i + 1,
                        wrapping_add(wrapping_mul(result, U32(10)), U32(to_digit(s[i]))))

\* str::parse::<u32>: decimal digits after at most one "+"; the empty text
\* and a sign alone are errors.
ParseU32(s) ==
    IF s = <<>> \/ s = <<"+">> \/ s = <<"-">> THEN [ok |-> FALSE, value |-> U32(0)]
    ELSE IF s[1] = "+" THEN from_str_radix(s, 2, U32(0))
    ELSE from_str_radix(s, 1, U32(0))

(***************************************************************************)
(* The gadget library as the resolvers use it.  Operations on constants    *)
(* are folded by the library and allocate nothing; an operation on an      *)
(* allocated operand appends one gate.                                     *)
(***************************************************************************)
Alloc(s, kind, label) == Append(s, Gate(kind, label))

\* Boolean::not
BooleanNegate(b) ==
    IF b.kind = "Constant" THEN BooleanConstant(~b.value)
    ELSE IF b.kind = "Is" THEN BooleanNot(b.value, b.variable)
    ELSE BooleanIs(b.value, b.variable)

\* Boolean::and
BooleanAnd(s, a, b) ==
    IF (a.kind = "Constant" /\ ~a.value) \/ (b.kind = "Constant" /\ ~b.value)
    THEN OkB(s, BooleanConstant(FALSE))
    ELSE IF a.kind = "Constant" THEN OkB(s, b)
    ELSE IF b.kind = "Constant" THEN OkB(s, a)
    ELSE LET s2 == Alloc(s, "and", "and")
         IN OkB(s2, BooleanIs(get_value(a) /\ get_value(b), Len(s2)))

\* Boolean::or
BooleanOr(s, a, b) ==
    IF a.kind = "Constant" /\ ~a.value THEN OkB(s, b)
    ELSE IF b.kind = "Constant" /\ ~b.value THEN OkB(s, a)
    ELSE IF a.kind = "Constant" \/ b.kind = "Constant"
    THEN OkB(s, BooleanConstant(TRUE))
    ELSE IF a.kind = "Is" /\ b.kind = "Is"
    THEN LET s2 == Alloc(s, "or", "or")
         IN OkB(s2, BooleanIs(get_value(a) \/ get_value(b), Len(s2)))
    ELSE LET n == BooleanAnd(s, BooleanNegate(a), BooleanNegate(b))
         IN OkB(n.cs, BooleanNegate(n.b))

\* Boolean::alloc that hands out the input gate already allocated under the label
BooleanAllocShared(s, label, value) ==
    IF \E i \in DOMAIN s : s[i] = Gate("alloc_boolean", label)
    THEN OkB(s, BooleanIs(value, CHOOSE i \in DOMAIN s : s[i] = Gate("alloc_boolean", label)))
    ELSE OkB(Alloc(s, "alloc_boolean", label),
             BooleanIs(value, Len(s) + 1))

\* Boolean::alloc
BooleanAlloc(s, label, value) ==
    LET s2 == Alloc(s, "alloc_boolean", label)
    IN OkB(s2, BooleanIs(value, Len(s2)))

\* UInt32::alloc
UInt32Alloc(s, label, value) ==
    LET s2 == Alloc(s, "alloc_uint32", label)
    IN OkU(s2, UInt32Allocated(value, Len(s2)))

\* <Boolean as EqGadget>::enforce_equal: two constants are compared on the
\* spot; anything else becomes a constraint of the system.
BooleanEnforceEqual(s, label, a, b) ==
    IF a.kind = "Constant" /\ b.kind = "Constant"
    THEN IF a.value = b.value THEN OkB(s, BooleanConstant(TRUE))
         ELSE FailB(s, GateAllocationFailure)
    ELSE OkB(Alloc(s, "enforce_equal", label), BooleanConstant(TRUE))

\* <UInt32 as ConditionalEqGadget>::conditional_enforce_equal, condition true
UInt32EnforceEqual(s, label, a, b) ==
    IF a.constant /\ b.constant
    THEN IF a.value = b.value THEN OkB(s, BooleanConstant(TRUE))
         ELSE FailB(s, GateAllocationFailure)
    ELSE OkB(Alloc(s, "enforce_equal", label), BooleanConstant(TRUE))

\* The value of a UInt32 operation (addmany, sub, mul, div, pow): the
\* 32-bit result, which wraps modulo 2^32
UInt32Value(op, l, r) ==
    CASE op = "+" -> wrapping_add(l, r)
      [] op = "-" -> wrapping_sub(l, r)
      [] op = "*" -> wrapping_mul(l, r)
      [] op = "/" -> IF r = U32(0) THEN U32(0) ELSE divide(l, r)
      [] op = "**" -> wrapping_pow(l, r)

\* UInt32::addmany, sub, mul, div, pow under the namespace "enforce l op r"
UInt32Op(s, op, l, r) ==
    IF op = "/" /\ r.value = U32(0) THEN FailU(s, GateAllocationFailure)
    ELSE IF l.constant /\ r.constant
    THEN OkU(s, UInt32Constant(UInt32Value(op, l.value, r.value)))
    ELSE LET s2 == Alloc(s, op, "enforce " \o DisplayU32(l.value) \o " " \o op
                                 \o " " \o DisplayU32(r.value))
         IN OkU(s2, UInt32Allocated(UInt32Value(op, l.value, r.value), Len(s2)))

(***************************************************************************)
(* ResolvedProgram: the resolvers.  rv is resolved_variables, arg the      *)
(* command-line argument, s the constraint system on entry.                *)
(***************************************************************************)
RECURSIVE get_bool_value(_, _, _, _)
RECURSIVE get_u32_value(_, _, _, _)
RECURSIVE enforce_boolean_expression(_, _, _, _)
RECURSIVE enforce_boolean_array(_, _, _, _, _)
RECURSIVE enforce_field_expression(_, _, _, _)
RECURSIVE enforce_field_array(_, _, _, _, _)
RECURSIVE enforce_struct_members(_, _, _, _, _, _)
RECURSIVE enforce_expression(_, _, _, _)

\* bool_from_variable without the lookup: every occurrence is a fresh input
bool_from_variable_reallocating(rv, arg, s, variable) ==
    LET parsed == ParseBool(IF arg.given THEN arg.text ELSE DefaultBool)
    IN IF parsed.ok THEN BooleanAlloc(s, variable, parsed.value)
       ELSE FailB(s, MissingWitness)

\* bool_from_variable that reads a bound integer as a boolean
bool_from_variable_coercing(rv, arg, s, variable) ==
    IF variable \in DOMAIN rv
    THEN IF rv[variable].t = "Boolean"
         THEN OkB(s, rv[variable].boolean)
         ELSE IF rv[variable].t = "FieldElement"
         THEN OkB(s, BooleanConstant(rv[variable].field.value # U32(0)))
         ELSE FailB(s, TypeMismatch)
    ELSE LET parsed == ParseBool(IF arg.given THEN arg.text ELSE DefaultBool)
         IN IF parsed.ok THEN BooleanAlloc(s, variable, parsed.value)
            ELSE FailB(s, MissingWitness)

bool_from_variable(rv, arg, s, variable) ==
    IF variable \in DOMAIN rv
    THEN IF rv[variable].t = "Boolean"
         THEN OkB(s, rv[variable].boolean)
         ELSE FailB(s, TypeMismatch)
    ELSE LET parsed == ParseBool(IF arg.given THEN arg.text ELSE DefaultBool)
         IN IF parsed.ok THEN BooleanAlloc(s, variable, parsed.value)
            ELSE FailB(s, MissingWitness)

u32_from_variable(rv, arg, s, variable) ==
    IF variable \in DOMAIN rv
    THEN IF rv[variable].t = "FieldElement"
         THEN OkU(s, rv[variable].field)
         ELSE FailU(s, TypeMismatch)
    ELSE LET parsed == ParseU32(IF arg.given THEN arg.text ELSE DefaultU32)
         IN IF parsed.ok THEN UInt32Alloc(s, variable, parsed.value)
            ELSE FailU(s, MissingWitness)

\* The match of get_bool_value on the value an expression resolved to
UnwrapBoolean(r) ==
    IF r.err # NoError THEN FailB(r.cs, r.err)
    ELSE IF r.val.t = "Boolean" THEN OkB(r.cs, r.val.boolean)
    ELSE FailB(r.cs, Unsupported)

get_bool_value(rv, arg, s, expression) ==
    IF expression.k = "BVariable"
    THEN bool_from_variable(rv, arg, s, expression.name)
    ELSE IF expression.k = "BValue"
    THEN OkB(s, BooleanConstant(expression.value))
    ELSE UnwrapBoolean(enforce_boolean_expression(rv, arg, s, expression))

\* The match of get_u32_value on the value an expression resolved to
UnwrapUInt32(r) ==
    IF r.err # NoError THEN FailU(r.cs, r.err)
    ELSE IF r.val.t = "FieldElement" THEN OkU(r.cs, r.val.field)
    ELSE FailU(r.cs, Unsupported)

get_u32_value(rv, arg, s, expression) ==
    IF expression.k = "FVariable"
    THEN u32_from_variable(rv, arg, s, expression.name)
    ELSE IF expression.k = "Number"
    THEN OkU(s, UInt32Constant(U32(expression.number)))
    ELSE UnwrapUInt32(enforce_field_expression(rv, arg, s, expression))

\* The gate of a binary boolean operator on its two resolved operands
BooleanGate(op, l, r) ==
    IF r.err # NoError THEN r
    ELSE CASE op = "or" -> BooleanOr(r.cs, l.b, r.b)
           [] op = "and" -> BooleanAnd(r.cs, l.b, r.b)
           [] op = "==" -> BooleanEnforceEqual(r.cs, "enforce bool equal", l.b, r.b)

\* A binary boolean operator once its left operand l is resolved: the right
\* operand is resolved on the constraint system the left one left, then the
\* gate is applied.
enforce_bool_binary(rv, arg, op, l, right) ==
    IF l.err # NoError THEN l
    ELSE BooleanGate(op, l, get_bool_value(rv, arg, l.cs, right))

\* Boolean::not on the resolved operand
NegateResolved(e) ==
    IF e.err # NoError THEN e ELSE OkB(e.cs, BooleanNegate(e.b))

enforce_not(rv, arg, s, expression) ==
    NegateResolved(get_bool_value(rv, arg, s, expression))

\* enforce_or that stops at a left operand that is the constant true
short_circuit_or(rv, arg, l, right) ==
    IF l.err # NoError THEN l
    ELSE IF l.b = BooleanConstant(TRUE) THEN l
    ELSE BooleanGate("or", l, get_bool_value(rv, arg, l.cs, right))

enforce_or_short_circuit(rv, arg, s, left, right) ==
    short_circuit_or(rv, arg, get_bool_value(rv, arg, s, left), right)

enforce_or(rv, arg, s, left, right) ==
    enforce_bool_binary(rv, arg, "or", get_bool_value(rv, arg, s, left), right)

\* enforce_and with the gate of enforce_or
enforce_and_as_or(rv, arg, s, left, right) ==
    enforce_bool_binary(rv, arg, "or", get_bool_value(rv, arg, s, left), right)

enforce_and(rv, arg, s, left, right) ==
    enforce_bool_binary(rv, arg, "and", get_bool_value(rv, arg, s, left), right)

enforce_bool_equality(rv, arg, s, left, right) ==
    enforce_bool_binary(rv, arg, "==", get_bool_value(rv, arg, s, left), right)

\* conditional_enforce_equal on the two resolved operands
FieldEqualityGate(l, r) ==
    IF r.err # NoError THEN FailB(r.cs, r.err)
    ELSE UInt32EnforceEqual(r.cs, "enforce field equal", l.u, r.u)

\* enforce_field_equality once its left operand l is resolved
enforce_field_equality_right(rv, arg, l, right) ==
    IF l.err # NoError THEN FailB(l.cs, l.err)
    ELSE FieldEqualityGate(l, get_u32_value(rv, arg, l.cs, right))

enforce_field_equality(rv, arg, s, left, right) ==
    enforce_field_equality_right(rv, arg, get_u32_value(rv, arg, s, left), right)

\* `resolved_first.eq(&Boolean::Constant(true))`: the derived equality of the
\* Boolean enum, which compares the variant as well as the value.
IfElseTakesSecond(resolved_first) == resolved_first = BooleanConstant(TRUE)

\* A Boolean result wrapped as ResolvedValue::Boolean
AsBoolean(r) == IF r.err # NoError THEN Fail(r.cs, r.err) ELSE Ok(r.cs, RBoolean(r.b))

\* A UInt32 result wrapped as ResolvedValue::FieldElement
AsFieldElement(r) ==
    IF r.err # NoError THEN Fail(r.cs, r.err) ELSE Ok(r.cs, RFieldElement(r.u))

\* BooleanExpression::IfElse once its condition `first` is resolved
enforce_boolean_branch(rv, arg, first, second, third) ==
    IF first.err # NoError THEN first
    ELSE IF first.val.t # "Boolean" THEN Fail(first.cs, Unsupported)
    ELSE IF IfElseTakesSecond(first.val.boolean)
    THEN enforce_boolean_expression(rv, arg, first.cs, second)
    ELSE enforce_boolean_expression(rv, arg, first.cs, third)

enforce_boolean_expression(rv, arg, s, expression) ==
    CASE expression.k = "BVariable" ->
            AsBoolean(bool_from_variable(rv, arg, s, expression.name))
      [] expression.k = "BValue" -> Ok(s, RBoolean(BooleanConstant(expression.value)))
      [] expression.k = "Not" -> AsBoolean(enforce_not(rv, arg, s, expression.e))
      [] expression.k = "Or" ->
            AsBoolean(enforce_or(rv, arg, s, expression.l, expression.r))
      [] expression.k = "And" ->
            AsBoolean(enforce_and(rv, arg, s, expression.l, expression.r))
      [] expression.k = "BoolEq" ->
            AsBoolean(enforce_bool_equality(rv, arg, s, expression.l, expression.r))
      [] expression.k = "FieldEq" ->
            AsBoolean(enforce_field_equality(rv, arg, s, expression.l, expression.r))
      [] expression.k = "BIfElse" ->
            enforce_boolean_branch(rv, arg,
                enforce_boolean_expression(rv, arg, s, expression.first),
                expression.second, expression.third)
      [] expression.k = "BArray" ->
            enforce_boolean_array(rv, arg, s, expression.array, <<>>)
      [] OTHER -> Fail(s, Unsupported)

\* One element r of BooleanExpression::Array resolved: it is collected and
\* the map goes on to the elements after it.
collect_boolean(rv, arg, r, array, done) ==
    IF r.err # NoError THEN r
    ELSE IF r.val.t # "Boolean" THEN Fail(r.cs, Unsupported)
    ELSE enforce_boolean_array(rv, arg, r.cs, Tail(array), Append(done, r.val.boolean))

\* The map/collect over the elements of BooleanExpression::Array, in order
enforce_boolean_array(rv, arg, s, array, done) ==
    IF array = <<>> THEN Ok(s, RBooleanArray(done))
    ELSE IF Head(array).k = "Spread" THEN Fail(s, Unsupported)
    ELSE collect_boolean(rv, arg,
             enforce_boolean_expression(rv, arg, s, Head(array)), array, done)

\* The gate of a binary field operator on its two resolved operands
UInt32Gate(op, l, r) ==
    IF r.err # NoError THEN r ELSE UInt32Op(r.cs, op, l.u, r.u)

\* A binary field operator once its left operand l is resolved
enforce_u32_binary(rv, arg, op, l, right) ==
    IF l.err # NoError THEN l
    ELSE UInt32Gate(op, l, get_u32_value(rv, arg, l.cs, right))

enforce_add(rv, arg, s, left, right) ==
    enforce_u32_binary(rv, arg, "+", get_u32_value(rv, arg, s, left), right)

enforce_sub(rv, arg, s, left, right) ==
    enforce_u32_binary(rv, arg, "-", get_u32_value(rv, arg, s, left), right)

enforce_mul(rv, arg, s, left, right) ==
    enforce_u32_binary(rv, arg, "*", get_u32_value(rv, arg, s, left), right)

enforce_div(rv, arg, s, left, right) ==
    enforce_u32_binary(rv, arg, "/", get_u32_value(rv, arg, s, left), right)

enforce_pow(rv, arg, s, left, right) ==
    enforce_u32_binary(rv, arg, "**", get_u32_value(rv, arg, s, left), right)

\* FieldExpression::IfElse once its condition `first` is resolved
enforce_field_branch(rv, arg, first, second, third) ==
    IF first.err # NoError THEN first
    ELSE IF first.val.t # "Boolean" THEN Fail(first.cs, Unsupported)
    ELSE IF IfElseTakesSecond(first.val.boolean)
    THEN enforce_field_expression(rv, arg, first.cs, second)
    ELSE enforce_field_expression(rv, arg, first.cs, third)

enforce_field_expression(rv, arg, s, expression) ==
    CASE expression.k = "FVariable" ->
            AsFieldElement(u32_from_variable(rv, arg, s, expression.name))
      [] expression.k = "Number" ->
            Ok(s, RFieldElement(UInt32Constant(U32(expression.number))))
      [] expression.k = "Add" ->
            AsFieldElement(enforce_add(rv, arg, s, expression.l, expression.r))
      [] expression.k = "Sub" ->
            AsFieldElement(enforce_sub(rv, arg, s, expression.l, expression.r))
      [] expression.k = "Mul" ->
            AsFieldElement(enforce_mul(rv, arg, s, expression.l, expression.r))
      [] expression.k = "Div" ->
            AsFieldElement(enforce_div(rv, arg, s, expression.l, expression.r))
      [] expression.k = "Pow" ->
            AsFieldElement(enforce_pow(rv, arg, s, expression.l, expression.r))
      [] expression.k = "FIfElse" ->
            enforce_field_branch(rv, arg,
                enforce_boolean_expression(rv, arg, s, expression.first),
                expression.second, expression.third)
      [] expression.k = "FArray" ->
            enforce_field_array(rv, arg, s, expression.array, <<>>)

\* One element r of FieldExpression::Array resolved: it is collected and the
\* map goes on to the elements after it.
collect_field(rv, arg, r, array, done) ==
    IF r.err # NoError THEN r
    ELSE IF r.val.t # "FieldElement" THEN Fail(r.cs, Unsupported)
    ELSE enforce_field_array(rv, arg, r.cs, Tail(array), Append(done, r.val.field))

\* The map/collect over the elements of FieldExpression::Array, in order
enforce_field_array(rv, arg, s, array, done) ==
    IF array = <<>> THEN Ok(s, RFieldElementArray(done))
    ELSE IF Head(array).k = "Spread" THEN Fail(s, Unsupported)
    ELSE collect_field(rv, arg,
             enforce_field_expression(rv, arg, s, Head(array)), array, done)

\* The initializer r of member i resolved: the zip goes on to the next pair
next_struct_member(rv, arg, r, fields, members, i) ==
    IF r.err # NoError THEN r
    ELSE enforce_struct_members(rv, arg, r.cs, fields, members, i + 1)

\* The zip without the comparison of the names
enforce_struct_members_unchecked(rv, arg, s, fields, members, i) ==
    IF i > Len(fields) \/ i > Len(members) THEN Ok(s, NoValue)
    ELSE next_struct_member(rv, arg,
             enforce_expression(rv, arg, s, members[i].expression),
             fields, members, i)

\* The zip of the declared fields with the supplied members, pair by pair:
\* the names are compared, then the member's expression is resolved.
enforce_struct_members(rv, arg, s, fields, members, i) ==
    IF i > Len(fields) \/ i > Len(members) THEN Ok(s, NoValue)
    ELSE IF fields[i].variable # members[i].variable THEN Fail(s, FieldMismatch)
    ELSE next_struct_member(rv, arg,
             enforce_expression(rv, arg, s, members[i].expression),
             fields, members, i)

\* ResolvedValue::StructExpression once the zip r is through
StructExpressionOf(r, variable, members) ==
    IF r.err # NoError THEN r ELSE Ok(r.cs, RStructExpression(variable, members))

\* enforce_struct_expression that takes any bound name for a declaration
\* without fields
enforce_struct_expression_lenient(rv, arg, s, variable, members) ==
    IF variable \in DOMAIN rv
    THEN StructExpressionOf(
             enforce_struct_members(rv, arg, s,
                 IF rv[variable].t = "StructDefinition"
                 THEN rv[variable].struct.fields ELSE <<>>,
                 members, 1),
             variable, members)
    ELSE Fail(s, UndefinedStruct)

enforce_struct_expression(rv, arg, s, variable, members) ==
    IF variable \in DOMAIN rv
    THEN IF rv[variable].t = "StructDefinition"
         THEN StructExpressionOf(
                  enforce_struct_members(rv, arg, s, rv[variable].struct.fields,
                                         members, 1),
                  variable, members)
         ELSE Fail(s, TypeMismatch)
    ELSE Fail(s, UndefinedStruct)

\* The match of enforce_index on the value the index resolved to
IndexOf(r) ==
    IF r.err # NoError THEN [cs |-> r.cs, err |-> r.err, index |-> U32(0)]
    ELSE IF r.val.t = "FieldElement"
    THEN [cs |-> r.cs, err |-> NoError, index |-> as_usize(r.val.field.value)]
    ELSE [cs |-> r.cs, err |-> TypeMismatch, index |-> U32(0)]

enforce_index(rv, arg, s, index) ==
    IndexOf(enforce_field_expression(rv, arg, s, index))

\* array[from..to] that starts one element late
SliceStartingLate(array, from, to) ==
    IF AtMost(from, to) /\ AtMost(to, U32(Len(array)))
    THEN [ok |-> TRUE, elements |-> SubSeq(array, Position(from) + 2, Position(to))]
    ELSE [ok |-> FALSE, elements |-> <<>>]

\* array[from..to] of a Rust slice: panics unless from <= to <= len
Slice(array, from, to) ==
    IF AtMost(from, to) /\ AtMost(to, U32(Len(array)))
    THEN [ok |-> TRUE, elements |-> SubSeq(array, Position(from) + 1, Position(to))]
    ELSE [ok |-> FALSE, elements |-> <<>>]

\* array[index] clamped to the last element instead of panicking
ElementClamped(array, index) ==
    IF Less(index, U32(Len(array)))
    THEN [ok |-> TRUE, element |-> <<array[Position(index) + 1]>>]
    ELSE IF Len(array) > 0
    THEN [ok |-> TRUE, element |-> <<array[Len(array)]>>]
    ELSE [ok |-> FALSE, element |-> <<>>]

\* array[index] of a Rust slice: panics unless index < len
Element(array, index) ==
    IF Less(index, U32(Len(array)))
    THEN [ok |-> TRUE, element |-> <<array[Position(index) + 1]>>]
    ELSE [ok |-> FALSE, element |-> <<>>]

\* An element and a sub-array wrapped as the ResolvedValue of the variant
Scalar(variant, element) ==
    IF variant = "FieldElementArray" THEN RFieldElement(element)
    ELSE RBoolean(element)

Vector(variant, elements) ==
    IF variant = "FieldElementArray" THEN RFieldElementArray(elements)
    ELSE RBooleanArray(elements)

\* An omitted bound of a range: nothing is resolved
DefaultBound(s, index) == [cs |-> s, err |-> NoError, index |-> index]

\* from_resolved: the lower bound of a range, 0 when omitted
range_from(rv, arg, s, index) ==
    IF index.from.some THEN enforce_index(rv, arg, s, index.from.expression)
    ELSE DefaultBound(s, U32(0))

\* to_resolved with an omitted bound taken as the last position
range_to_last(rv, arg, from, elements, index) ==
    IF from.err # NoError THEN from
    ELSE IF index.to.some THEN enforce_index(rv, arg, from.cs, index.to.expression)
    ELSE DefaultBound(from.cs, wrapping_sub(U32(Len(elements)), U32(1)))

\* to_resolved: the upper bound of a range, resolved after the lower one; the
\* length of the array when omitted
range_to(rv, arg, from, elements, index) ==
    IF from.err # NoError THEN from
    ELSE IF index.to.some THEN enforce_index(rv, arg, from.cs, index.to.expression)
    ELSE DefaultBound(from.cs, U32(Len(elements)))

\* array[from_resolved..to_resolved] on the two resolved bounds
SliceOf(variant, elements, from, to) ==
    IF to.err # NoError THEN Fail(to.cs, to.err)
    ELSE IF Slice(elements, from.index, to.index).ok
    THEN Ok(to.cs, Vector(variant, Slice(elements, from.index, to.index).elements))
    ELSE Fail(to.cs, IndexOutOfRange)

\* The Range arm once the lower bound `from` is resolved
enforce_range(rv, arg, variant, elements, from, index) ==
    SliceOf(variant, elements, from, range_to(rv, arg, from, elements, index))

\* array[index_resolved] on the resolved index
ElementOf(variant, elements, i) ==
    IF i.err # NoError THEN Fail(i.cs, i.err)
    ELSE IF Element(elements, i.index).ok
    THEN Ok(i.cs, Scalar(variant, Element(elements, i.index).element[1]))
    ELSE Fail(i.cs, IndexOutOfRange)

\* The two arms of enforce_array_access_expression, which differ only in
\* the variant of the array: `elements` are the elements of the resolved array.
enforce_array_access(rv, arg, s, variant, elements, index) ==
    IF index.k = "Range"
    THEN enforce_range(rv, arg, variant, elements, range_from(rv, arg, s, index), index)
    ELSE ElementOf(variant, elements, enforce_index(rv, arg, s, index.expression))

\* The elements of an array value
Elements(value) ==
    IF value.t = "FieldElementArray" THEN value.fields ELSE value.booleans

IsArray(value) == value.t \in {"FieldElementArray", "BooleanArray"}

\* The match of enforce_array_access_expression on the value `a` the array
\* expression resolved to
access_resolved(rv, arg, a, index) ==
    IF a.err # NoError THEN a
    ELSE IF IsArray(a.val)
    THEN enforce_array_access(rv, arg, a.cs, a.val.t, Elements(a.val), index)
    ELSE Fail(a.cs, TypeMismatch)

enforce_array_access_expression(rv, arg, s, array, index) ==
    access_resolved(rv, arg, enforce_expression(rv, arg, s, array), index)

enforce_expression(rv, arg, s, expression) ==
    CASE expression.k = "Boolean" ->
            enforce_boolean_expression(rv, arg, s, expression.boolean)
      [] expression.k = "FieldElement" ->
            enforce_field_expression(rv, arg, s, expression.field)
      [] expression.k = "Variable" ->
            IF expression.name \in DOMAIN rv THEN Ok(s, rv[expression.name])
            ELSE IF ~arg.given THEN Fail(s, MissingWitness)
            ELSE IF ParseBool(arg.text).ok
            THEN AsBoolean(bool_from_variable(rv, arg, s, expression.name))
            ELSE AsFieldElement(u32_from_variable(rv, arg, s, expression.name))
      [] expression.k = "Struct" ->
            enforce_struct_expression(rv, arg, s, expression.name, expression.members)
      [] expression.k = "ArrayAccess" ->
            enforce_array_access_expression(rv, arg, s, expression.array,
                                            expression.index)

(***************************************************************************)
(* impl fmt::Display for ResolvedValue                                     *)
(***************************************************************************)
DisplayBool(b) == IF b THEN "true" ELSE "false"

\* Display of the Expression of a struct member (fmt::Display for Expression
\* and the expression types it wraps).
DisplayExpression(expression) ==
    CASE expression.k = "Variable" -> expression.name
      [] expression.k = "FieldElement" /\ expression.field.k = "Number" ->
            ToString(expression.field.number)
      [] expression.k = "FieldElement" /\ expression.field.k = "FVariable" ->
            expression.field.name
      [] expression.k = "Boolean" /\ expression.boolean.k = "BValue" ->
            DisplayBool(expression.boolean.value)
      [] expression.k = "Boolean" /\ expression.boolean.k = "BVariable" ->
            expression.boolean.name
      [] OTHER -> "_"

RECURSIVE DisplayBooleans(_, _)
DisplayBooleans(array, i) ==
    IF i > Len(array) THEN ""
    ELSE DisplayBool(get_value(array[i]))
         \o (IF i - 1 < Len(array) - 1 THEN ", " ELSE "")
         \o DisplayBooleans(array, i + 1)

RECURSIVE DisplayFields(_, _)
DisplayFields(array, i) ==
    IF i > Len(array) THEN ""
    ELSE DisplayU32(array[i].value)
         \o (IF i - 1 < Len(array) - 1 THEN ", " ELSE "")
         \o DisplayFields(array, i + 1)

RECURSIVE DisplayMembers(_, _)
DisplayMembers(members, i) ==
    IF i > Len(members) THEN ""
    ELSE members[i].variable \o ": " \o DisplayExpression(members[i].expression)
         \o (IF i - 1 < Len(members) - 1 THEN ", " ELSE "")
         \o DisplayMembers(members, i + 1)

\* The variants Display renders; the others reach unimplemented!()
Displayable(value) ==
    value.t \in {"Boolean", "BooleanArray", "FieldElement", "FieldElementArray",
                 "StructExpression"}

Display(value) ==
    CASE value.t = "Boolean" -> DisplayBool(get_value(value.boolean))
      [] value.t = "BooleanArray" -> "[" \o DisplayBooleans(value.booleans, 1) \o "]"
      [] value.t = "FieldElement" -> DisplayU32(value.field.value)
      [] value.t = "FieldElementArray" -> "[" \o DisplayFields(value.fields, 1) \o "]"
      [] value.t = "StructExpression" ->
            value.variable \o " {" \o DisplayMembers(value.members, 1) \o "}"

(***************************************************************************)
(* enforce_statement                                                       *)
(***************************************************************************)
\* An insert that leaves a name already bound
insert_keeping(rv, variable, value) ==
    [v \in DOMAIN rv \cup {variable} |-> IF v \in DOMAIN rv THEN rv[v] ELSE value]

\* ResolvedProgram::insert
insert(rv, variable, value) ==
    [v \in DOMAIN rv \cup {variable} |-> IF v = variable THEN value ELSE rv[v]]

\* One expression of a Return statement
enforce_return_expression(rv, arg, s, expression) ==
    CASE expression.k = "Boolean" ->
            enforce_boolean_expression(rv, arg, s, expression.boolean)
      [] expression.k = "FieldElement" ->
            enforce_field_expression(rv, arg, s, expression.field)
      [] expression.k = "Variable" ->
            IF expression.name \in DOMAIN rv THEN Ok(s, rv[expression.name])
            ELSE Fail(s, UndefinedName)
      [] OTHER -> Fail(s, Unsupported)

\* The for_each over the expressions of a Return statement: each is resolved
\* and printed in turn; `out` collects the printed values.
RECURSIVE enforce_return(_, _, _, _, _)

\* One expression of a Return resolved to r: it is printed and the for_each
\* goes on to the expressions after it.
print_returned(rv, arg, r, expressions, out) ==
    IF r.err # NoError THEN [cs |-> r.cs, err |-> r.err, out |-> out]
    ELSE IF ~Displayable(r.val) THEN [cs |-> r.cs, err |-> Unsupported, out |-> out]
    ELSE enforce_return(rv, arg, r.cs, Tail(expressions), Append(out, Display(r.val)))

enforce_return(rv, arg, s, expressions, out) ==
    IF expressions = <<>> THEN [cs |-> s, err |-> NoError, out |-> out]
    ELSE print_returned(rv, arg,
             enforce_return_expression(rv, arg, s, Head(expressions)),
             expressions, out)

\* The value r of a Definition resolved: it is printed and bound.  The result
\* is the constraint system, the fatal condition, the value and the bindings
\* after.
print_and_insert(rv, variable, r) ==
    IF r.err # NoError
    THEN [cs |-> r.cs, err |-> r.err, val |-> NoValue, rv |-> rv, out |-> <<>>]
    ELSE IF ~Displayable(r.val)
    THEN [cs |-> r.cs, err |-> Unsupported, val |-> NoValue, rv |-> rv, out |-> <<>>]
    ELSE [cs |-> r.cs, err |-> NoError, val |-> r.val,
          rv |-> insert(rv, variable, r.val), out |-> <<Display(r.val)>>]

\* Statement::Definition: resolve, print, bind
enforce_definition(rv, arg, s, variable, expression) ==
    print_and_insert(rv, variable, enforce_expression(rv, arg, s, expression))

(***************************************************************************)
(* The program tree: constructors of the expression and statement types.   *)
(***************************************************************************)
BVariable(n) == [k |-> "BVariable", name |-> n]
BValue(b) == [k |-> "BValue", value |-> b]
Not(e) == [k |-> "Not", e |-> e]
Or(l, r) == [k |-> "Or", l |-> l, r |-> r]
And(l, r) == [k |-> "And", l |-> l, r |-> r]
BoolEq(l, r) == [k |-> "BoolEq", l |-> l, r |-> r]
FieldEq(l, r) == [k |-> "FieldEq", l |-> l, r |-> r]
BIfElse(a, b, c) == [k |-> "BIfElse", first |-> a, second |-> b, third |-> c]
BArray(a) == [k |-> "BArray", array |-> a]
Geq(l, r) == [k |-> "Geq", l |-> l, r |-> r]
Spread == [k |-> "Spread"]

FVariable(n) == [k |-> "FVariable", name |-> n]
Number(n) == [k |-> "Number", number |-> n]
Add(l, r) == [k |-> "Add", l |-> l, r |-> r]
Sub(l, r) == [k |-> "Sub", l |-> l, r |-> r]
Mul(l, r) == [k |-> "Mul", l |-> l, r |-> r]
Div(l, r) == [k |-> "Div", l |-> l, r |-> r]
Pow(l, r) == [k |-> "Pow", l |-> l, r |-> r]
FIfElse(a, b, c) == [k |-> "FIfElse", first |-> a, second |-> b, third |-> c]
FArray(a) == [k |-> "FArray", array |-> a]

EBoolean(e) == [k |-> "Boolean", boolean |-> e]
EFieldElement(e) == [k |-> "FieldElement", field |-> e]
EVariable(n) == [k |-> "Variable", name |-> n]
EStruct(n, m) == [k |-> "Struct", name |-> n, members |-> m]
EArrayAccess(a, i) == [k |-> "ArrayAccess", array |-> a, index |-> i]

StructMember(v, e) == [variable |-> v, expression |-> e]
StructField(v, ty) == [variable |-> v, ty |-> ty]
Struct(v, fields) == [variable |-> v, fields |-> fields]
Function(v) == [variable |-> v]

None == [some |-> FALSE]
Some(e) == [some |-> TRUE, expression |-> e]
Range(from, to) == [k |-> "Range", from |-> from, to |-> to]
Index(e) == [k |-> "Index", expression |-> e]

Definition(v, e) == [k |-> "Definition", variable |-> v, expression |-> e]
Return(es) == [k |-> "Return", expressions |-> es]

Program(structs, functions, statements) ==
    [structs |-> structs, functions |-> functions, statements |-> statements]

(***************************************************************************)
(* The programs and arguments the pass is run on.                          *)
(***************************************************************************)
MaxSetup == 2      \* definitions ahead of the statement under study
MaxArrayLen == 3   \* longest array sliced

Point == Struct("Point", <<StructField("x", "u32"), StructField("y", "u32")>>)
PointStructs == <<[variable |-> "Point", struct |-> Point]>>
MainFunctions == <<[variable |-> "main", function |-> Function("main")]>>

\* no argument, "true", "false", "1" and "+04294967295"
Arguments ==
    {NoArgument, Argument(<<"t", "r", "u", "e">>), Argument(<<"f", "a", "l", "s", "e">>),
     Argument(<<"1">>),
     Argument(<<"+", "0", "4", "2", "9", "4", "9", "6", "7", "2", "9", "5">>)}

\* Sequences over S of length at most n
RECURSIVE SeqsUpTo(_, _)
SeqsUpTo(S, n) ==
    IF n = 0 THEN {<<>>}
    ELSE LET shorter == SeqsUpTo(S, n - 1)
         IN shorter \cup {Append(q, x) : q \in shorter, x \in S}

PointMembers == <<StructMember("x", EFieldElement(Number(3))),
                  StructMember("y", EFieldElement(Number(4)))>>

SetupPool ==
    { Definition("a", EBoolean(BValue(TRUE))),
      Definition("a", EBoolean(BValue(FALSE))),
      Definition("a", EBoolean(BVariable("w"))),
      Definition("n", EFieldElement(Number(2))),
      Definition("arr", EFieldElement(FArray(<<Number(1), Number(2), Number(3)>>))),
      Definition("flags", EBoolean(BArray(<<BValue(TRUE), BValue(FALSE)>>))),
      Definition("p", EStruct("Point", PointMembers)),
      Definition("a", EBoolean(And(BVariable("w"), BoolEq(BValue(TRUE), BValue(FALSE))))) }

IfElseConditions ==
    { BValue(TRUE), BValue(FALSE), BVariable("a"), BVariable("w"),
      Not(BVariable("a")), And(BVariable("a"), BVariable("w")),
      Or(BVariable("w"), BVariable("u")) }

BooleanBranches ==
    { <<BValue(TRUE), BValue(FALSE)>>,
      <<And(BVariable("u"), BVariable("v")), BValue(FALSE)>>,
      <<BVariable("a"), Or(BVariable("u"), BVariable("v"))>> }

FieldBranches ==
    { <<Number(5), Number(6)>>,
      <<Add(FVariable("u"), Number(1)), Number(0)>> }

EqualityBooleans == {BValue(TRUE), BValue(FALSE), BVariable("a"), BVariable("w")}
EqualityFields == {Number(1), Number(2), FVariable("n"), FVariable("w")}

IfElseExpressions ==
    {EBoolean(BIfElse(c, b[1], b[2])) : c \in IfElseConditions, b \in BooleanBranches}
    \cup
    {EFieldElement(FIfElse(c, b[1], b[2])) : c \in IfElseConditions, b \in FieldBranches}

EqualityExpressions ==
    {EBoolean(BoolEq(l, r)) : l \in EqualityBooleans, r \in EqualityBooleans}
    \cup
    {EBoolean(FieldEq(l, r)) : l \in EqualityFields, r \in EqualityFields}

VariableExpressions ==
    {EVariable(v) : v \in {"a", "n", "arr", "flags", "p", "w", "Point", "main"}}
    \cup {EBoolean(BVariable(v)) : v \in {"a", "n", "arr", "p", "Point", "w"}}
    \cup {EFieldElement(FVariable(v)) : v \in {"a", "n", "flags", "p", "main", "w"}}

OperatorExpressions ==
    { EBoolean(And(BVariable("a"), BVariable("a"))),
      EBoolean(Or(BVariable("a"), BVariable("w"))),
      EBoolean(Or(Not(BVariable("w")), BVariable("u"))),
      EBoolean(And(BVariable("n"), BVariable("w"))),
      EBoolean(And(BVariable("a"), BVariable("w"))),
      EBoolean(Or(BVariable("w"), BVariable("w"))),
      EFieldElement(Add(FVariable("w"), FVariable("w"))),
      EBoolean(Not(BVariable("w"))),
      EBoolean(Geq(Number(1), Number(2))),
      EBoolean(BArray(<<BValue(TRUE), Spread>>)),
      EBoolean(BArray(<<>>)),
      EFieldElement(Add(FVariable("n"), Number(1))),
      EFieldElement(Add(FVariable("w"), FVariable("a"))),
      EFieldElement(Sub(Number(3), FVariable("n"))),
      EFieldElement(Sub(Number(1), FVariable("n"))),
      EFieldElement(Sub(Number(0), FVariable("w"))),
      EFieldElement(Mul(Number(65536), Mul(Number(32768), FVariable("n")))),
      EFieldElement(Mul(FVariable("n"), FVariable("w"))),
      EFieldElement(Div(Number(4), FVariable("n"))),
      EFieldElement(Div(FVariable("n"), Number(0))),
      EFieldElement(Pow(FVariable("n"), Number(3))),
      EFieldElement(FArray(<<FVariable("w"), Spread>>)) }

StructExpressions ==
    { EStruct("Point", PointMembers),
      EStruct("Point", <<PointMembers[2], PointMembers[1]>>),
      EStruct("Point", <<PointMembers[1], StructMember("z", EFieldElement(Number(4)))>>),
      EStruct("Point", <<StructMember("x", EBoolean(BVariable("n"))),
                         StructMember("z", EFieldElement(Number(4)))>>),
      EStruct("Point", <<StructMember("x", EFieldElement(FVariable("w"))),
                         StructMember("y", EBoolean(And(BVariable("u"), BVariable("v"))))>>),
      EStruct("Point", <<PointMembers[1]>>),
      EStruct("Point", <<PointMembers[1], PointMembers[2],
                         StructMember("z", EFieldElement(FVariable("w")))>>),
      EStruct("Point", <<>>),
      EStruct("Circle", PointMembers),
      EStruct("a", PointMembers),
      EStruct("main", PointMembers),
      EStruct("a", <<StructMember("x", EFieldElement(FVariable("w")))>>),
      EStruct("Circle", <<StructMember("x", EBoolean(BVariable("u")))>>) }

Bounds == {None} \cup {Some(Number(i)) : i \in {0, 1, 3, 4}}

ArrayAccessExpressions ==
    {EArrayAccess(EVariable(v), Index(Number(i))) :
        v \in {"arr", "flags"}, i \in 0 .. 4}
    \cup {EArrayAccess(EVariable(v), Index(FVariable("n"))) :
            v \in {"arr", "flags", "n", "a", "p", "Point", "w"}}
    \cup {EArrayAccess(EVariable(v), Range(from, to)) :
            v \in {"arr", "flags"}, from \in Bounds, to \in Bounds}
    \cup {EArrayAccess(EVariable("n"), Range(None, None)),
          EArrayAccess(EVariable("arr"), Index(FVariable("arr"))),
          EArrayAccess(EVariable("arr"), Index(Sub(Number(0), Number(1)))),
          EArrayAccess(EVariable("arr"), Range(Some(FVariable("flags")), None)),
          EArrayAccess(EFieldElement(FArray(<<FVariable("w"), Number(7)>>)),
                       Index(Number(2)))}

ReturnStatements ==
    { Return(<<>>),
      Return(<<EVariable("a")>>),
      Return(<<EVariable("x")>>),
      Return(<<EVariable("p")>>),
      Return(<<EVariable("Point")>>),
      Return(<<EVariable("a"), EVariable("n")>>),
      Return(<<EBoolean(And(BVariable("w"), BVariable("u"))), EVariable("x")>>),
      Return(<<EFieldElement(Add(FVariable("n"), FVariable("w")))>>),
      Return(<<EStruct("Point", PointMembers)>>),
      Return(<<EArrayAccess(EVariable("arr"), Index(Number(0)))>>) }

ProbePool ==
    {Definition("x", e) :
        e \in IfElseExpressions \cup EqualityExpressions \cup VariableExpressions
              \cup OperatorExpressions \cup StructExpressions
              \cup ArrayAccessExpressions}
    \cup ReturnStatements

\* Up to MaxSetup definitions, then at most one statement under study
GeneralPrograms ==
    {Program(PointStructs, MainFunctions, setup \o tail) :
        setup \in SeqsUpTo(SetupPool, MaxSetup),
        tail \in {<<>>} \cup {<<q>> : q \in ProbePool}}

\* a = true; b = false; c = a And b; Return([c])
AndScenario ==
    Program(<<>>, <<>>,
            << Definition("a", EBoolean(BValue(TRUE))),
               Definition("b", EBoolean(BValue(FALSE))),
               Definition("c", EBoolean(And(BVariable("a"), BVariable("b")))),
               Return(<<EVariable("c")>>) >>)

\* x = 0 - w; y = x + 2; z = x * x; Return([x, y, z]), w unbound
WrapScenario ==
    Program(<<>>, <<>>,
            << Definition("x", EFieldElement(Sub(Number(0), FVariable("w")))),
               Definition("y", EFieldElement(Add(FVariable("x"), Number(2)))),
               Definition("z", EFieldElement(Mul(FVariable("x"), FVariable("x")))),
               Return(<<EVariable("x"), EVariable("y"), EVariable("z")>>) >>)

\* struct Point{x, y}; p = Point{x: 3, y: 4}; Return([p])
PointScenario ==
    Program(PointStructs, <<>>,
            << Definition("p", EStruct("Point", PointMembers)),
               Return(<<EVariable("p")>>) >>)

\* arr = A; lo = arr[0..k]; hi = arr[k..N]
FieldItems == <<Number(1), Number(2), Number(3), Number(4), Number(5)>>
BooleanItems == <<BValue(TRUE), BValue(FALSE), BValue(FALSE), BValue(TRUE), BVariable("w")>>

SliceArrays ==
    {EFieldElement(FArray(SubSeq(FieldItems, 1, len))) : len \in 0 .. MaxArrayLen}
    \cup {EBoolean(BArray(SubSeq(BooleanItems, 1, len))) : len \in 0 .. MaxArrayLen}

SlicePrograms ==
    {Program(<<>>, <<>>,
             << Definition("arr", array),
                Definition("lo", EArrayAccess(EVariable("arr"),
                                              Range(Some(Number(0)), Some(Number(k))))),
                Definition("hi", EArrayAccess(EVariable("arr"),
                                              Range(Some(Number(k)), to))) >>) :
        array \in SliceArrays, k \in 0 .. MaxArrayLen + 1,
        to \in {None} \cup {Some(Number(n)) : n \in 0 .. MaxArrayLen}}

\* Declarations alone and with one statement: a struct and a function of
\* the same name, no declarations at all
DeclarationPrograms ==
    {Program(structs, functions, statements) :
        structs \in {<<>>, PointStructs},
        functions \in {<<>>, MainFunctions,
                       <<[variable |-> "Point", function |-> Function("Point")]>>},
        statements \in {<<>>, <<Definition("p", EStruct("Point", PointMembers))>>,
                        <<Definition("Point", EBoolean(BValue(TRUE))),
                          Definition("p", EStruct("Point", PointMembers))>>}}

Programs ==
    GeneralPrograms \cup SlicePrograms \cup DeclarationPrograms
    \cup {AndScenario, PointScenario, WrapScenario}

(***************************************************************************)
(* leo/api.rs: the Api handler and its routes.  A route is its name and,   *)
(* for Publish, whether the package file can be read; a response is the    *)
(* code and the body the server sent.                                    *)
(***************************************************************************)
MaxTokens == 2     \* set_auth_token calls on one Api

NoToken == [some |-> FALSE, token |-> ""]
Token(t) == [some |-> TRUE, token |-> t]

Host == "https://apm.leo-lang.org/"

\* The Route constants of Fetch, Login, Publish and Profile
AUTH(route) ==
    CASE route.name = "Fetch" -> TRUE
      [] route.name = "Login" -> FALSE
      [] route.name = "Publish" -> TRUE
      [] route.name = "Profile" -> TRUE

METHOD(route) == IF route.name = "Profile" THEN "GET" ELSE "POST"

PATH(route) ==
    CASE route.name = "Fetch" -> "api/package/fetch"
      [] route.name = "Login" -> "api/account/authenticate"
      [] route.name = "Publish" -> "api/package/publish"
      [] route.name = "Profile" -> "api/account/my_profile"

CONTENT_TYPE(route) == IF route.name = "Publish" THEN "FormData" ELSE "JSON"

\* Route::to_form: None by default; Publish builds the form unless the file
\* cannot be read.
to_form(route) == route.name = "Publish" /\ route.file

Route(name, file) == [name |-> name, file |-> file]

\* What a run_route call returns
NoOutput == [kind |-> "None", some |-> FALSE, text |-> "", status |-> 0]
OkResponse(res) == [kind |-> "Ok", some |-> TRUE, text |-> "", status |-> res.status]
OkText(text) == [kind |-> "Ok", some |-> TRUE, text |-> text, status |-> 0]
OkNone == [kind |-> "Ok", some |-> FALSE, text |-> "", status |-> 0]
Err(text) == [kind |-> "Err", some |-> FALSE, text |-> text, status |-> 0]
Panicked == [kind |-> "Panic", some |-> FALSE, text |-> "", status |-> 0]

\* A response: the code and the body, which is JSON with string fields or
\* is not JSON at all.
NoResponse == [received |-> FALSE, status |-> 0, json |-> FALSE, fields |-> {}]
Response(code, json, fields) ==
    [received |-> TRUE, status |-> code, json |-> json, fields |-> fields]

\* The value of a field of the bodies of the model
FieldText(field) ==
    CASE field = "username" -> "alice"
      [] field = "package_id" -> "pkg-1"
      [] field = "message" -> "bad request"
      [] OTHER -> "-"

\* StatusCode::canonical_reason: the standard reason phrase of the registered
\* status codes, and the text Display prints for the others
canonical_reason(code) ==
    CASE code = 100 -> "Continue"
      [] code = 101 -> "Switching Protocols"
      [] code = 102 -> "Processing"
      [] code = 103 -> "Early Hints"
      [] code = 200 -> "OK"
      [] code = 201 -> "Created"
      [] code = 202 -> "Accepted"
      [] code = 203 -> "Non Authoritative Information"
      [] code = 204 -> "No Content"
      [] code = 205 -> "Reset Content"
      [] code = 206 -> "Partial Content"
      [] code = 207 -> "Multi-Status"
      [] code = 208 -> "Already Reported"
      [] code = 226 -> "IM Used"
      [] code = 300 -> "Multiple Choices"
      [] code = 301 -> "Moved Permanently"
      [] code = 302 -> "Found"
      [] code = 303 -> "See Other"
      [] code = 304 -> "Not Modified"
      [] code = 305 -> "Use Proxy"
      [] code = 307 -> "Temporary Redirect"
      [] code = 308 -> "Permanent Redirect"
      [] code = 400 -> "Bad Request"
      [] code = 401 -> "Unauthorized"
      [] code = 402 -> "Payment Required"
      [] code = 403 -> "Forbidden"
      [] code = 404 -> "Not Found"
      [] code = 405 -> "Method Not Allowed"
      [] code = 406 -> "Not Acceptable"
      [] code = 407 -> "Proxy Authentication Required"
      [] code = 408 -> "Request Timeout"
      [] code = 409 -> "Conflict"
      [] code = 410 -> "Gone"
      [] code = 411 -> "Length Required"
      [] code = 412 -> "Precondition Failed"
      [] code = 413 -> "Payload Too Large"
      [] code = 414 -> "URI Too Long"
      [] code = 415 -> "Unsupported Media Type"
      [] code = 416 -> "Range Not Satisfiable"
      [] code = 417 -> "Expectation Failed"
      [] code = 418 -> "I'm a teapot"
      [] code = 421 -> "Misdirected Request"
      [] code = 422 -> "Unprocessable Entity"
      [] code = 423 -> "Locked"
      [] code = 424 -> "Failed Dependency"
      [] code = 425 -> "Too Early"
      [] code = 426 -> "Upgrade Required"
      [] code = 428 -> "Precondition Required"
      [] code = 429 -> "Too Many Requests"
      [] code = 431 -> "Request Header Fields Too Large"
      [] code = 451 -> "Unavailable For Legal Reasons"
      [] code = 500 -> "Internal Server Error"
      [] code = 501 -> "Not Implemented"
      [] code = 502 -> "Bad Gateway"
      [] code = 503 -> "Service Unavailable"
      [] code = 504 -> "Gateway Timeout"
      [] code = 505 -> "HTTP Version Not Supported"
      [] code = 506 -> "Variant Also Negotiates"
      [] code = 507 -> "Insufficient Storage"
      [] code = 508 -> "Loop Detected"
      [] code = 510 -> "Not Extended"
      [] code = 511 -> "Network Authentication Required"
      [] OTHER -> "<unknown status code>"

\* fmt::Display for StatusCode: the code and its canonical reason
DisplayStatus(code) == ToString(code) \o " " \o canonical_reason(code)

\* Response::json::<T>() failing
DecodeError == "error decoding response body"

\* Fetch::status_to_err
FetchStatusToErr(code) ==
    CASE code = 400 -> "Package is not found - check author and/or package name"
      [] code = 404 -> "Package not found"
      [] OTHER -> "Unknown API error: " \o DisplayStatus(code)

\* Fetch::process
FetchProcess(res) ==
    IF res.status # 200 THEN Err(FetchStatusToErr(res.status)) ELSE OkResponse(res)

\* Login::status_to_err
LoginStatusToErr(code) ==
    CASE code = 400 ->
            "This username is not yet registered or the password is incorrect"
      [] code = 404 -> "Incorrect password"
      [] OTHER -> "Unknown API error: " \o DisplayStatus(code)

\* Login::process
LoginProcess(res) ==
    IF res.status # 200 THEN Err(LoginStatusToErr(res.status)) ELSE OkResponse(res)

\* Publish::process (the backquotes of the 401 message are written as quotes)
PublishProcess(res) ==
    IF res.status = 200
    THEN IF res.json /\ "package_id" \in res.fields
         THEN OkText(FieldText("package_id"))
         ELSE Err(DecodeError)
    ELSE IF ~res.json THEN Err(DecodeError)
    ELSE CASE res.status = 400 ->
                IF "message" \in res.fields THEN Err(FieldText("message"))
                ELSE Panicked
           [] res.status = 401 ->
                Err("You are not logged in. Please use 'leo login' to login")
           [] res.status = 424 -> Err("This package version is already published")
           [] res.status = 500 ->
                Err("Server error, please contact us at https://github.com/AleoHQ/leo/issues")
           [] OTHER -> Err("Unknown status code")

\* Profile::process that reports an unauthorized response as an error
ProfileProcessStrict(res) ==
    IF res.status = 200
    THEN IF res.json /\ "username" \in res.fields
         THEN OkText(FieldText("username"))
         ELSE Err(DecodeError)
    ELSE IF res.status = 401 THEN Err("You are not logged in")
    ELSE OkNone

\* Profile::process
ProfileProcess(res) ==
    IF res.status = 200
    THEN IF res.json /\ "username" \in res.fields
         THEN OkText(FieldText("username"))
         ELSE Err(DecodeError)
    ELSE OkNone

\* route.process(res)
process(route, res) ==
    CASE route.name = "Fetch" -> FetchProcess(res)
      [] route.name = "Login" -> LoginProcess(res)
      [] route.name = "Publish" -> PublishProcess(res)
      [] route.name = "Profile" -> ProfileProcess(res)

\* set_auth_token that keeps a token it already holds
set_auth_token_keeping(held, token) == IF held.some THEN held ELSE Token(token)

\* Api::set_auth_token: the new value of auth_token
set_auth_token(held, token) == Token(token)

\* The request run_route builds
NoRequest ==
    [sent |-> FALSE, route |-> "", method |-> "", url |-> "", body |-> "",
     bearer |-> NoToken]

\* The body of the request: POST and PUT carry the route as JSON or as its form
RequestBody(route) ==
    IF METHOD(route) \in {"POST", "PUT"}
    THEN IF CONTENT_TYPE(route) = "JSON" THEN "json" ELSE "multipart"
    ELSE "none"

\* bearer_auth: only if Route::AUTH is true and a token is present
Bearer(held, route) == IF AUTH(route) /\ held.some THEN held ELSE NoToken

Request(held, route) ==
    [sent |-> TRUE, route |-> route.name, method |-> METHOD(route),
     url |-> Host \o PATH(route), body |-> RequestBody(route),
     bearer |-> Bearer(held, route)]

\* Api::run_route: the request built, the response received and the value
\* returned.  net is what send() meets: no connection, or a response.
run_route(held, route, net) ==
    IF METHOD(route) \in {"POST", "PUT"} /\ CONTENT_TYPE(route) = "FormData"
       /\ ~to_form(route)
    THEN [request |-> NoRequest, response |-> NoResponse, output |-> Panicked]
    ELSE IF ~net.received
    THEN [request |-> Request(held, route), response |-> NoResponse,
          output |-> Err("Unable to connect to Aleo PM. If you specified custom API endpoint, then check the URL for errors")]
    ELSE [request |-> Request(held, route), response |-> net,
          output |-> process(route, net)]

\* The routes, statuses, bodies and tokens the Api is run on
Routes ==
    {Route("Fetch", FALSE), Route("Login", FALSE), Route("Profile", FALSE),
     Route("Publish", TRUE), Route("Publish", FALSE)}

\* 299 is a status code without a canonical reason
Statuses == {200, 299, 400, 401, 403, 404, 424, 500}

Bodies ==
    {[json |-> FALSE, fields |-> {}], [json |-> TRUE, fields |-> {}],
     [json |-> TRUE, fields |-> {"username"}],
     [json |-> TRUE, fields |-> {"package_id"}],
     [json |-> TRUE, fields |-> {"message"}]}

Networks ==
    {NoResponse} \cup {Response(code, b.json, b.fields) : code \in Statuses, b \in Bodies}

Tokens == {"jwt-1", "jwt-2"}

\* No Api call has been made
ApiIdle ==
    /\ auth_token = NoToken
    /\ tokens_given = <<NoToken>>
    /\ request = NoRequest
    /\ response = NoResponse
    /\ output = NoOutput

(***************************************************************************)
(* generate_constraints                                                    *)
(***************************************************************************)
NoStatement == [k |-> "None"]
NoBindings == [v \in {} |-> NoValue]

\* What an enforce_statement call did: the statement, the bindings and the
\* constraint system it started from, the value it resolved (a Definition),
\* the values it printed, and the fatal condition it raised.
Last(statement, rv, s, val, out, err) ==
    [statement |-> statement, rv |-> rv, cs |-> s, val |-> val, out |-> out,
     err |-> err]

Init ==
    /\ program \in Programs
    /\ argument \in Arguments
    /\ resolved_variables = NoBindings
    /\ cs = <<>>
    /\ pc = 0
    /\ status = "start"
    /\ error = NoError
    /\ last = Last(NoStatement, NoBindings, <<>>, NoValue, <<>>, NoError)
    /\ ApiIdle

\* The inserts of the struct declarations, in order
RECURSIVE insert_structs(_, _)
insert_structs(rv, structs) ==
    IF structs = <<>> THEN rv
    ELSE insert_structs(insert(rv, Head(structs).variable,
                               RStructDefinition(Head(structs).struct)),
                        Tail(structs))

\* The inserts of the function declarations that leave a name already bound
RECURSIVE insert_functions_keeping(_, _)
insert_functions_keeping(rv, functions) ==
    IF functions = <<>> THEN rv
    ELSE insert_functions_keeping(
             IF Head(functions).variable \in DOMAIN rv THEN rv
             ELSE insert(rv, Head(functions).variable,
                         RFunction(Head(functions).function)),
             Tail(functions))

\* The inserts of the function declarations, in order
RECURSIVE insert_functions(_, _)
insert_functions(rv, functions) ==
    IF functions = <<>> THEN rv
    ELSE insert_functions(insert(rv, Head(functions).variable,
                                 RFunction(Head(functions).function)),
                          Tail(functions))

\* ResolvedProgram::new() and the declarations of the program
SeedDeclarations ==
    /\ status = "start"
    /\ resolved_variables' =
           insert_functions(insert_structs(NoBindings, program.structs),
                            program.functions)
    /\ status' = "running"
    /\ UNCHANGED <<program, argument, cs, pc, error, last>>
    /\ UNCHANGED api_vars

\* The statement the for_each of generate_constraints is at
Current == program.statements[pc + 1]

\* A for_each that goes on to the next statement whatever the last one did
AdvanceIgnoringFailure(err) ==
    /\ error' = err
    /\ status' = "running"
    /\ pc' = pc + 1

\* The bookkeeping common to the two statement forms
Advance(err) ==
    /\ error' = err
    /\ status' = IF err = NoError THEN "running" ELSE "failed"
    /\ pc' = IF err = NoError THEN pc + 1 ELSE pc

\* enforce_statement on a Definition
EnforceDefinition ==
    /\ status = "running"
    /\ pc < Len(program.statements)
    /\ Current.k = "Definition"
    /\ LET r == enforce_definition(resolved_variables, argument, cs,
                                   Current.variable, Current.expression)
       IN /\ resolved_variables' = r.rv
          /\ cs' = r.cs
          /\ last' = Last(Current, resolved_variables, cs, r.val, r.out, r.err)
          /\ Advance(r.err)
    /\ UNCHANGED <<program, argument>>
    /\ UNCHANGED api_vars

\* enforce_statement on a Return
EnforceReturn ==
    /\ status = "running"
    /\ pc < Len(program.statements)
    /\ Current.k = "Return"
    /\ LET r == enforce_return(resolved_variables, argument, cs,
                               Current.expressions, <<>>)
       IN /\ cs' = r.cs
          /\ last' = Last(Current, resolved_variables, cs, NoValue, r.out, r.err)
          /\ Advance(r.err)
    /\ UNCHANGED <<program, argument, resolved_variables>>
    /\ UNCHANGED api_vars

\* generate_constraints returns once the statements are exhausted
Complete ==
    /\ status = "running"
    /\ pc = Len(program.statements)
    /\ status' = "done"
    /\ UNCHANGED <<program, argument, resolved_variables, cs, pc, error, last>>
    /\ UNCHANGED api_vars

Next == SeedDeclarations \/ EnforceDefinition \/ EnforceReturn \/ Complete

Spec == Init /\ [][Next]_vars

(***************************************************************************)
(* The Api in use: Api::new, then set_auth_token and run_route calls.      *)
(***************************************************************************)
ApiInit ==
    /\ program = Program(<<>>, <<>>, <<>>)
    /\ argument = NoArgument
    /\ resolved_variables = NoBindings
    /\ cs = <<>>
    /\ pc = 0
    /\ status = "start"
    /\ error = NoError
    /\ last = Last(NoStatement, NoBindings, <<>>, NoValue, <<>>, NoError)
    /\ auth_token \in {NoToken} \cup {Token(t) : t \in Tokens}
    /\ tokens_given = <<auth_token>>
    /\ request = NoRequest
    /\ response = NoResponse
    /\ output = NoOutput

SetAuthToken ==
    /\ Len(tokens_given) <= MaxTokens
    /\ \E token \in Tokens :
          /\ auth_token' = set_auth_token(auth_token, token)
          /\ tokens_given' = Append(tokens_given, Token(token))
    /\ UNCHANGED <<request, response, output>>
    /\ UNCHANGED constraint_vars

RunRoute ==
    /\ \E route \in Routes, net \in Networks :
          /\ request' = run_route(auth_token, route, net).request
          /\ response' = run_route(auth_token, route, net).response
          /\ output' = run_route(auth_token, route, net).output
    /\ UNCHANGED <<auth_token, tokens_given>>
    /\ UNCHANGED constraint_vars

ApiNext == SetAuthToken \/ RunRoute

ApiSpec == ApiInit /\ [][ApiNext]_vars

(***************************************************************************)
(* Properties.  `last` holds the statement the latest enforce_statement    *)
(* call processed together with the bindings and the constraint system it  *)
(* started from; `resolved_variables` and `cs` are what it left.           *)
(***************************************************************************)
Processed == last.statement.k # "None"
DefinitionOf(kind) ==
    /\ last.statement.k = "Definition"
    /\ last.statement.expression.k = kind

\* The condition of the IfElse the last Definition resolved, resolved alone
IfElseOfLast ==
    IF last.statement.expression.k = "Boolean"
    THEN last.statement.expression.boolean
    ELSE last.statement.expression.field

LastIsIfElse ==
    \/ DefinitionOf("Boolean") /\ last.statement.expression.boolean.k = "BIfElse"
    \/ DefinitionOf("FieldElement") /\ last.statement.expression.field.k = "FIfElse"

ConditionOfLast ==
    enforce_boolean_expression(last.rv, argument, last.cs, IfElseOfLast.first)

\* The branch `branch` of the IfElse of the last Definition, resolved alone
\* on the constraint system the condition left
BranchOfLast(branch) ==
    IF IfElseOfLast.k = "BIfElse"
    THEN enforce_boolean_expression(last.rv, argument, ConditionOfLast.cs, branch)
    ELSE enforce_field_expression(last.rv, argument, ConditionOfLast.cs, branch)

ConditionResolved ==
    /\ LastIsIfElse
    /\ ConditionOfLast.err = NoError
    /\ ConditionOfLast.val.t = "Boolean"

\* The last Definition ended as the resolution `r` of an expression does:
\* the same fatal condition, the same gates and, without a fatal condition,
\* the same value.
LastEndedAs(r) ==
    /\ last.err = r.err
    /\ cs = r.cs
    /\ r.err = NoError => last.val = r.val

\* C1: an IfElse whose condition resolves to a boolean of concrete value
\* true (constant, bound variable, gate output or allocated input alike)
\* yields what resolving `then` alone yields and allocates the gates of the
\* condition and of `then` only; of concrete value false, the same with
\* `else`.
C1_IfElseFollowsConditionValue ==
    ConditionResolved =>
        LastEndedAs(BranchOfLast(IF get_value(ConditionOfLast.val.boolean)
                                 THEN IfElseOfLast.second
                                 ELSE IfElseOfLast.third))

\* The equality the last Definition enforced, and its operands resolved
\* in turn
LastIsEquality ==
    /\ DefinitionOf("Boolean")
    /\ last.statement.expression.boolean.k \in {"BoolEq", "FieldEq"}

EqualityOfLast == last.statement.expression.boolean

LeftOfLast ==
    IF EqualityOfLast.k = "BoolEq"
    THEN get_bool_value(last.rv, argument, last.cs, EqualityOfLast.l)
    ELSE get_u32_value(last.rv, argument, last.cs, EqualityOfLast.l)

RightOfLast ==
    IF EqualityOfLast.k = "BoolEq"
    THEN get_bool_value(last.rv, argument, LeftOfLast.cs, EqualityOfLast.r)
    ELSE get_u32_value(last.rv, argument, LeftOfLast.cs, EqualityOfLast.r)

OperandsResolved ==
    /\ LastIsEquality
    /\ LeftOfLast.err = NoError
    /\ RightOfLast.err = NoError

OperandsEqual ==
    IF EqualityOfLast.k = "BoolEq"
    THEN get_value(LeftOfLast.b) = get_value(RightOfLast.b)
    ELSE LeftOfLast.u.value = RightOfLast.u.value

\* C2: BoolEq and FieldEq of operands that resolve to equal concrete values
\* succeed with the constant true; of operands that resolve to unequal
\* concrete values they fail with GateAllocationFailure and bind nothing.
C2_UnequalOperandsFail ==
    OperandsResolved =>
        IF OperandsEqual
        THEN /\ last.err = NoError
             /\ last.val = RBoolean(BooleanConstant(TRUE))
        ELSE /\ status = "failed"
             /\ error = GateAllocationFailure
             /\ resolved_variables = last.rv

\* The variable the last Definition read as its whole expression, if it
\* is a plain read (boolean operand, field operand or whole right-hand side)
LastIsRead ==
    \/ DefinitionOf("Variable")
    \/ DefinitionOf("Boolean") /\ last.statement.expression.boolean.k = "BVariable"
    \/ DefinitionOf("FieldElement") /\ last.statement.expression.field.k = "FVariable"

NameReadByLast ==
    CASE last.statement.expression.k = "Variable" -> last.statement.expression.name
      [] last.statement.expression.k = "Boolean" ->
            last.statement.expression.boolean.name
      [] last.statement.expression.k = "FieldElement" ->
            last.statement.expression.field.name

\* The variant the position of the read expects is the variant bound
ReadMatches(value) ==
    CASE last.statement.expression.k = "Variable" -> Displayable(value)
      [] last.statement.expression.k = "Boolean" -> value.t = "Boolean"
      [] last.statement.expression.k = "FieldElement" -> value.t = "FieldElement"

LastReadBound ==
    /\ LastIsRead
    /\ NameReadByLast \in DOMAIN last.rv
    /\ ReadMatches(last.rv[NameReadByLast])

\* C3: a Definition binds the value it resolved; a Variable expression of a
\* bound name (boolean operand, field operand or whole right-hand side)
\* then yields the bound value and allocates no gate, every time it is
\* resolved.
C3_BoundVariableReadsBack ==
    /\ DefinitionOf(last.statement.expression.k) /\ last.err = NoError =>
            /\ last.statement.variable \in DOMAIN resolved_variables
            /\ resolved_variables[last.statement.variable] = last.val
    /\ LastReadBound =>
            /\ last.err = NoError
            /\ last.val = last.rv[NameReadByLast]
            /\ cs = last.cs
    /\ \A v \in DOMAIN resolved_variables :
            LET value == resolved_variables[v]
            IN /\ enforce_expression(resolved_variables, argument, cs, EVariable(v))
                    = Ok(cs, value)
               /\ value.t = "Boolean" =>
                    /\ get_bool_value(resolved_variables, argument, cs, BVariable(v))
                         = OkB(cs, value.boolean)
                    /\ enforce_boolean_expression(resolved_variables, argument, cs,
                                                  BVariable(v)) = Ok(cs, value)
               /\ value.t = "FieldElement" =>
                    /\ get_u32_value(resolved_variables, argument, cs, FVariable(v))
                         = OkU(cs, value.field)
                    /\ enforce_field_expression(resolved_variables, argument, cs,
                                                FVariable(v)) = Ok(cs, value)

\* A Definition bound a to an allocated input and a later Definition read it
\* back as a boolean operand
C3_Witness ==
    /\ LastReadBound
    /\ pc >= 2
    /\ last.statement.expression.k = "Boolean"
    /\ NameReadByLast = "a"
    /\ last.val.boolean.kind = "Is"
    /\ Len(cs) > 0

\* The array the last Definition accessed, resolved alone, and the bounds
\* of the access resolved after it
LastIsArrayAccess == DefinitionOf("ArrayAccess")

ArrayOfLast ==
    enforce_expression(last.rv, argument, last.cs, last.statement.expression.array)

IndexOfLast == last.statement.expression.index

ArrayResolved ==
    /\ LastIsArrayAccess
    /\ ArrayOfLast.err = NoError
    /\ IsArray(ArrayOfLast.val)

LengthOfLast == Len(Elements(ArrayOfLast.val))

SingleOfLast ==
    enforce_index(last.rv, argument, ArrayOfLast.cs, IndexOfLast.expression)

FromOfLast ==
    IF IndexOfLast.from.some
    THEN enforce_index(last.rv, argument, ArrayOfLast.cs, IndexOfLast.from.expression)
    ELSE [cs |-> ArrayOfLast.cs, err |-> NoError, index |-> U32(0)]

ToOfLast ==
    IF IndexOfLast.to.some
    THEN enforce_index(last.rv, argument, FromOfLast.cs, IndexOfLast.to.expression)
    ELSE [cs |-> FromOfLast.cs, err |-> NoError, index |-> U32(LengthOfLast)]

SingleResolved ==
    ArrayResolved /\ IndexOfLast.k = "Index" /\ SingleOfLast.err = NoError

RangeResolved ==
    /\ ArrayResolved
    /\ IndexOfLast.k = "Range"
    /\ FromOfLast.err = NoError
    /\ ToOfLast.err = NoError

FailedWith(kind) ==
    /\ status = "failed"
    /\ error = kind
    /\ last.err = kind
    /\ resolved_variables = last.rv

\* C4: a single index at or past the length of the array, and a range
\* whose bounds leave 0..N or whose from exceeds its to, fail with
\* IndexOutOfRange; no element is returned and nothing is bound.
C4_OutOfRangeFails ==
    /\ (SingleResolved /\ AtMost(U32(LengthOfLast), SingleOfLast.index)) =>
            FailedWith(IndexOutOfRange)
    /\ (RangeResolved /\ (\/ Less(ToOfLast.index, FromOfLast.index)
                          \/ Less(U32(LengthOfLast), FromOfLast.index)
                          \/ Less(U32(LengthOfLast), ToOfLast.index))) =>
            FailedWith(IndexOutOfRange)

\* A single index past the end of a non-empty array was resolved
C4_Witness ==
    /\ SingleResolved
    /\ LengthOfLast > 0
    /\ AtMost(U32(LengthOfLast), SingleOfLast.index)
    /\ status = "failed"

\* The slicing programs: arr = A; lo = arr[0..k]; hi = arr[k..to]
SliceK == program.statements[2].expression.index.to.expression.number
SliceTo == program.statements[3].expression.index.to

SliceDecomposition ==
    /\ program \in SlicePrograms
    /\ pc >= 1
    /\ SliceK <= Len(Elements(resolved_variables["arr"]))
    /\ SliceTo = Some(Number(Len(Elements(resolved_variables["arr"]))))

\* C5: for an array A of length N and 0 <= k <= N, the slices (0, k) and
\* (k, N) both succeed and their concatenation is A, element by element.
C5_SlicesConcatenateToArray ==
    SliceDecomposition =>
        /\ status # "failed"
        /\ pc = 3 =>
            /\ resolved_variables["lo"].t = resolved_variables["arr"].t
            /\ resolved_variables["hi"].t = resolved_variables["arr"].t
            /\ Elements(resolved_variables["lo"]) \o Elements(resolved_variables["hi"])
                 = Elements(resolved_variables["arr"])
            /\ Len(Elements(resolved_variables["lo"])) = SliceK

\* Both slices of a three-element array taken at k = 1
C5_Witness ==
    /\ SliceDecomposition
    /\ pc = 3
    /\ SliceK = 1
    /\ Len(Elements(resolved_variables["arr"])) = 3
    /\ Len(Elements(resolved_variables["hi"])) = 2

\* The struct literal the last Definition constructed against a bound
\* StructDefinition
LastIsStruct ==
    /\ DefinitionOf("Struct")
    /\ last.statement.expression.name \in DOMAIN last.rv
    /\ last.rv[last.statement.expression.name].t = "StructDefinition"

MembersOfLast == last.statement.expression.members
FieldsOfLast == last.rv[last.statement.expression.name].struct.fields

Min(a, b) == IF a <= b THEN a ELSE b

\* The positions present in the declaration and in the literal
ComparedPositions == 1 .. Min(Len(FieldsOfLast), Len(MembersOfLast))

Mismatches ==
    {i \in ComparedPositions : FieldsOfLast[i].variable # MembersOfLast[i].variable}

\* The first position whose names differ, 0 if there is none
FirstMismatch ==
    IF Mismatches = {} THEN 0
    ELSE CHOOSE i \in Mismatches : \A j \in Mismatches : i <= j

\* The first n initializers of the literal resolved alone, in list order
RECURSIVE InitializersUpTo(_, _, _)
InitializersUpTo(s, i, n) ==
    IF i > n THEN [cs |-> s, err |-> NoError]
    ELSE LET r == enforce_expression(last.rv, argument, s, MembersOfLast[i].expression)
         IN IF r.err # NoError THEN [cs |-> r.cs, err |-> r.err]
            ELSE InitializersUpTo(r.cs, i + 1, n)

StructConstructed ==
    /\ last.err = NoError
    /\ last.val = RStructExpression(last.statement.expression.name, MembersOfLast)
    /\ resolved_variables[last.statement.variable] = last.val

MatchingLiteralConstructed ==
    (FirstMismatch = 0
        /\ InitializersUpTo(last.cs, 1, Cardinality(ComparedPositions)).err = NoError) =>
            StructConstructed

\* C6 as claimed: a literal whose field name differs from the declared one
\* at some position fails with FieldMismatch; a literal that matches at
\* every position and whose initializers are valid yields a StructInstance
\* carrying the name and the initializer list as given.
C6_MismatchAlwaysFieldMismatch ==
    LastIsStruct =>
        /\ FirstMismatch # 0 => FailedWith(FieldMismatch)
        /\ MatchingLiteralConstructed

\* C6 as amended: the names are compared position by position as the
\* initializers are resolved, so a literal with a differing name fails with
\* FieldMismatch if the initializers ahead of the first differing position
\* resolve, and with the fatal condition of the first of them that does not
\* otherwise; a matching literal with valid initializers yields the
\* StructInstance carrying the name and the initializer list as given.
C6_MismatchFailsAtFirstDifference ==
    LastIsStruct =>
        /\ FirstMismatch # 0 =>
            LET before == InitializersUpTo(last.cs, 1, FirstMismatch - 1)
            IN /\ cs = before.cs
               /\ IF before.err = NoError THEN FailedWith(FieldMismatch)
                  ELSE FailedWith(before.err)
        /\ MatchingLiteralConstructed

\* A literal whose second name differs and whose first initializer fails
C6_Witness ==
    /\ LastIsStruct
    /\ FirstMismatch = 2
    /\ status = "failed"
    /\ error = TypeMismatch

IsPrefix(a, b) == Len(a) <= Len(b) /\ SubSeq(b, 1, Len(a)) = a

\* A step of the for_each over the statements: the statement at pc
StatementStep ==
    /\ pc < Len(program.statements)
    /\ last'.statement = program.statements[pc + 1]
    /\ last'.rv = resolved_variables
    /\ last'.cs = cs
    /\ IF last'.err = NoError
       THEN /\ status' = "running"
            /\ pc' = pc + 1
            /\ error' = NoError
            /\ \A v \in DOMAIN resolved_variables : v \in DOMAIN resolved_variables'
       ELSE /\ status' = "failed"
            /\ pc' = pc
            /\ error' = last'.err
            /\ resolved_variables' = resolved_variables

\* C7: the statements are processed once each, in source order, until
\* they are exhausted or one raises a fatal condition; nothing is processed
\* after a fatal condition, the bindings and the gates made before it stay,
\* and the gates of the sink only ever grow.
C7_StopsAtFirstFatal ==
    [][ /\ status \in {"start", "running"}
        /\ IsPrefix(cs, cs')
        /\ status = "start" => (status' = "running" /\ pc' = 0 /\ cs' = cs)
        /\ (status = "running" /\ status' = "done") =>
                (pc = Len(program.statements) /\ pc' = pc /\ error' = NoError
                    /\ resolved_variables' = resolved_variables)
        /\ (status = "running" /\ status' # "done") => StatementStep
      ]_vars

\* A statement that is not the last failed after an earlier statement had
\* bound a name and after allocating a gate of its own
C7_Witness ==
    /\ status = "failed"
    /\ pc >= 1
    /\ pc + 1 < Len(program.statements)
    /\ Len(cs) > Len(last.cs)
    /\ DOMAIN resolved_variables # {"Point", "main"}

\* C8: a = true; b = false; c = a And b; Return([c]) runs to completion
\* without a fatal condition and ends with a bound to true, b to false and
\* c to a boolean of value false.
C8_AndScenarioCompletes ==
    program = AndScenario =>
        /\ status # "failed"
        /\ status # "done" => ENABLED Next
        /\ status = "done" =>
            /\ pc = 4
            /\ resolved_variables["a"] = RBoolean(BooleanConstant(TRUE))
            /\ resolved_variables["b"] = RBoolean(BooleanConstant(FALSE))
            /\ resolved_variables["c"].t = "Boolean"
            /\ get_value(resolved_variables["c"].boolean) = FALSE
            /\ last.out = <<"false">>

C8_Witness ==
    /\ program = AndScenario
    /\ status = "done"
    /\ DOMAIN resolved_variables = {"a", "b", "c"}

\* C9: struct Point{x, y}; p = Point{x: 3, y: 4}; Return([p]) runs to
\* completion without a fatal condition, p is bound to a StructInstance of
\* Point, and p is rendered as `Point { x: 3, y: 4 }`.
C9_PointRendering ==
    program = PointScenario =>
        /\ status # "failed"
        /\ status = "done" =>
            /\ resolved_variables["p"] = RStructExpression("Point", PointMembers)
            /\ Display(resolved_variables["p"]) = "Point { x: 3, y: 4 }"
            /\ last.out = <<"Point { x: 3, y: 4 }">>

\* C10: no resolver coerces between variants: a boolean Variable bound to
\* a non-Boolean, a field Variable bound to a non-FieldElement and an array
\* access on a value that is no array each fail with TypeMismatch; the
\* Definition they stand in binds nothing.
C10_NoCoercion ==
    /\ \A v \in DOMAIN resolved_variables :
            LET value == resolved_variables[v]
            IN /\ value.t # "Boolean" =>
                    /\ get_bool_value(resolved_variables, argument, cs, BVariable(v))
                         = FailB(cs, TypeMismatch)
                    /\ enforce_boolean_expression(resolved_variables, argument, cs,
                                                  BVariable(v)) = Fail(cs, TypeMismatch)
               /\ value.t # "FieldElement" =>
                    /\ get_u32_value(resolved_variables, argument, cs, FVariable(v))
                         = FailU(cs, TypeMismatch)
                    /\ enforce_field_expression(resolved_variables, argument, cs,
                                                FVariable(v)) = Fail(cs, TypeMismatch)
    /\ (LastIsRead /\ NameReadByLast \in DOMAIN last.rv
            /\ last.statement.expression.k # "Variable"
            /\ ~ReadMatches(last.rv[NameReadByLast])) =>
            (FailedWith(TypeMismatch) /\ cs = last.cs)
    /\ (LastIsArrayAccess /\ ArrayOfLast.err = NoError /\ ~IsArray(ArrayOfLast.val)) =>
            (FailedWith(TypeMismatch) /\ cs = ArrayOfLast.cs)

\* A name bound to an integer was read as a boolean operand
C10_Witness ==
    /\ LastIsRead
    /\ last.statement.expression.k = "Boolean"
    /\ NameReadByLast \in DOMAIN last.rv
    /\ last.rv[NameReadByLast].t = "FieldElement"
    /\ status = "failed"

(***************************************************************************)
(* Properties of the bindings and of struct construction (Spec).           *)
(***************************************************************************)
StructNames == {program.structs[i].variable : i \in DOMAIN program.structs}
FunctionNames == {program.functions[i].variable : i \in DOMAIN program.functions}

\* The declaration of the name
StructDeclared(name) ==
    program.structs[CHOOSE i \in DOMAIN program.structs :
                        program.structs[i].variable = name].struct

FunctionDeclared(name) ==
    program.functions[CHOOSE i \in DOMAIN program.functions :
                          program.functions[i].variable = name].function

\* The first statement is about to be processed
FirstStatementStarts == status = "running" /\ pc = 0

\* C13: when the first statement starts, the bindings are exactly the
\* declared struct and function names, each bound to its declaration, a
\* function ahead of a struct of the same name; also with no statements.
C13_DeclarationsSeeded ==
    FirstStatementStarts =>
        /\ DOMAIN resolved_variables = StructNames \cup FunctionNames
        /\ \A name \in StructNames \cup FunctionNames :
              resolved_variables[name] =
                  IF name \in FunctionNames THEN RFunction(FunctionDeclared(name))
                  ELSE RStructDefinition(StructDeclared(name))

\* A struct and a function of the same name declared, no statement to run
C13_Witness ==
    /\ FirstStatementStarts
    /\ StructNames \cap FunctionNames # {}
    /\ program.statements = <<>>

\* C14: once the statements run, the bindings change only by a Definition
\* that ended without a fatal condition, which binds the defined name to
\* the value it resolved and leaves every other binding alone; a Return
\* and a failed statement change nothing, and no bound name is lost.
C14_OnlyDefinitionsBind ==
    [][status = "running" =>
          /\ \A v \in DOMAIN resolved_variables : v \in DOMAIN resolved_variables'
          /\ resolved_variables' # resolved_variables =>
                (last'.statement.k = "Definition" /\ last'.err = NoError)
          /\ (pc' = pc + 1 /\ last'.statement.k = "Definition") =>
                /\ DOMAIN resolved_variables' =
                      DOMAIN resolved_variables \cup {last'.statement.variable}
                /\ resolved_variables'[last'.statement.variable] = last'.val
                /\ \A v \in DOMAIN resolved_variables \ {last'.statement.variable} :
                      resolved_variables'[v] = resolved_variables[v]]_vars

\* A Definition rebound the name of a declared struct or function
C14_Witness ==
    /\ last.statement.k = "Definition"
    /\ last.err = NoError
    /\ last.statement.variable \in DOMAIN last.rv
    /\ last.rv[last.statement.variable].t \in {"StructDefinition", "Function"}
    /\ resolved_variables[last.statement.variable].t = "Boolean"

\* The last Definition constructed a struct, whatever its name is bound to
LastIsLiteral == DefinitionOf("Struct")
NameOfLiteral == last.statement.expression.name

LiteralOfDeclaredStruct ==
    /\ NameOfLiteral \in DOMAIN last.rv
    /\ last.rv[NameOfLiteral].t = "StructDefinition"

\* C15: a struct literal whose name is unbound fails with UndefinedStruct,
\* one whose name is bound to anything but a struct declaration fails too;
\* neither resolves an initializer nor allocates a gate.
C15_UndeclaredStructFails ==
    (LastIsLiteral /\ ~LiteralOfDeclaredStruct) =>
        /\ status = "failed"
        /\ last.err # NoError
        /\ error = last.err
        /\ NameOfLiteral \notin DOMAIN last.rv => FailedWith(UndefinedStruct)
        /\ cs = last.cs
        /\ resolved_variables = last.rv

\* A literal of a name rebound to a boolean, with an initializer that reads
\* an unbound variable
C15_Witness ==
    /\ LastIsLiteral
    /\ NameOfLiteral \in DOMAIN last.rv
    /\ last.rv[NameOfLiteral].t = "Boolean"
    /\ last.statement.expression.members # <<>>
    /\ last.statement.expression.members[1].expression = EFieldElement(FVariable("w"))
    /\ status = "failed"

\* C16: a struct construction that succeeds has resolved every initializer
\* of the literal, in list order, whatever the length of the list: its
\* gates are the gates of all the initializers.
C16_EveryInitializerResolved ==
    (LastIsStruct /\ last.err = NoError) =>
        /\ InitializersUpTo(last.cs, 1, Len(MembersOfLast)).err = NoError
        /\ cs = InitializersUpTo(last.cs, 1, Len(MembersOfLast)).cs

\* The last Definition read a name that was unbound, as a boolean operand,
\* a field operand or the whole right-hand side
LastReadUnbound == LastIsRead /\ NameReadByLast \notin DOMAIN last.rv

\* The constraint system `after` is `before` and one input gate keyed by name
OneInputGate(before, after, name) ==
    /\ Len(after) = Len(before) + 1
    /\ SubSeq(after, 1, Len(before)) = before
    /\ after[Len(after)].label = name
    /\ after[Len(after)].kind \in {"alloc_boolean", "alloc_uint32"}

\* C17: with no command-line argument, reading an unbound name never fails
\* in any position: one input gate keyed by the name is allocated and the
\* value is the default, true for a boolean and 1 for an integer.
C17_UnboundReadDefaults ==
    (LastReadUnbound /\ ~argument.given) =>
        /\ last.err = NoError
        /\ OneInputGate(last.cs, cs, NameReadByLast)
        /\ \/ last.val = RBoolean(BooleanIs(TRUE, Len(cs)))
           \/ last.val = RFieldElement(UInt32Allocated(U32(1), Len(cs)))
        /\ last.statement.expression.k = "Boolean" => last.val.t = "Boolean"
        /\ last.statement.expression.k = "FieldElement" => last.val.t = "FieldElement"

\* The last Definition applied Or, And or a binary field operator
LastIsBinary ==
    \/ DefinitionOf("Boolean") /\ last.statement.expression.boolean.k \in {"Or", "And"}
    \/ /\ DefinitionOf("FieldElement")
       /\ last.statement.expression.field.k \in {"Add", "Sub", "Mul", "Div", "Pow"}

BinaryOfLast ==
    IF last.statement.expression.k = "Boolean"
    THEN last.statement.expression.boolean
    ELSE last.statement.expression.field

\* The left operand resolved alone, and the right one resolved after it
LeftOperandOfLast ==
    IF last.statement.expression.k = "Boolean"
    THEN get_bool_value(last.rv, argument, last.cs, BinaryOfLast.l)
    ELSE get_u32_value(last.rv, argument, last.cs, BinaryOfLast.l)

RightOperandOfLast ==
    IF last.statement.expression.k = "Boolean"
    THEN get_bool_value(last.rv, argument, LeftOperandOfLast.cs, BinaryOfLast.r)
    ELSE get_u32_value(last.rv, argument, LeftOperandOfLast.cs, BinaryOfLast.r)

\* C18: Or, And and the binary field operators resolve the left operand,
\* then the right one, then allocate at most their own gate: the gates of
\* the right operand are allocated whatever the left one resolved to, and a
\* fatal condition in the left operand leaves the right one unresolved.
C18_OperandsLeftThenRight ==
    LastIsBinary =>
        /\ LeftOperandOfLast.err # NoError =>
              /\ last.err = LeftOperandOfLast.err
              /\ cs = LeftOperandOfLast.cs
        /\ LeftOperandOfLast.err = NoError =>
              /\ IsPrefix(RightOperandOfLast.cs, cs)
              /\ RightOperandOfLast.err # NoError =>
                    /\ last.err = RightOperandOfLast.err
                    /\ cs = RightOperandOfLast.cs
              /\ RightOperandOfLast.err = NoError =>
                    Len(cs) <= Len(RightOperandOfLast.cs) + 1

\* Or of the constant true and an unbound variable: the input gate of the
\* right operand is allocated although the left one decides the result
C18_Witness ==
    /\ LastIsBinary
    /\ BinaryOfLast.k = "Or"
    /\ LeftOperandOfLast = OkB(last.cs, BooleanConstant(TRUE))
    /\ Len(RightOperandOfLast.cs) = Len(last.cs) + 1
    /\ cs = RightOperandOfLast.cs
    /\ last.val = RBoolean(BooleanConstant(TRUE))

\* The bounds of the range of the last Definition: an omitted from is 0, an
\* omitted to is the length of the array
LowerOfLast == IF IndexOfLast.from.some THEN FromOfLast.index ELSE U32(0)
UpperOfLast == IF IndexOfLast.to.some THEN ToOfLast.index ELSE U32(LengthOfLast)

RangeWithinArray ==
    /\ RangeResolved
    /\ AtMost(LowerOfLast, UpperOfLast)
    /\ AtMost(UpperOfLast, U32(LengthOfLast))

\* C19: a range access within the array yields an array of the variant of
\* the input holding its elements from..to-1 in order, from taken as 0 and
\* to as the length when omitted, so the range without bounds yields the
\* whole array; the array bound to the name accessed stays as it was.
C19_RangeIsSubsequence ==
    RangeWithinArray =>
        /\ last.err = NoError
        /\ last.val.t = ArrayOfLast.val.t
        /\ Elements(last.val) =
              [i \in 1 .. (Position(UpperOfLast) - Position(LowerOfLast)) |->
                  Elements(ArrayOfLast.val)[Position(LowerOfLast) + i]]
        /\ (~IndexOfLast.from.some /\ ~IndexOfLast.to.some) =>
              Elements(last.val) = Elements(ArrayOfLast.val)
        /\ (last.statement.expression.array.k = "Variable"
              /\ last.statement.expression.array.name # last.statement.variable) =>
              resolved_variables[last.statement.expression.array.name]
                  = last.rv[last.statement.expression.array.name]

\* The range without bounds on a bound array of three elements
C19_Witness ==
    /\ RangeWithinArray
    /\ ~IndexOfLast.from.some
    /\ ~IndexOfLast.to.some
    /\ LengthOfLast = 3
    /\ last.statement.expression.array.k = "Variable"
    /\ last.val = last.rv[last.statement.expression.array.name]
    /\ resolved_variables[last.statement.variable] = last.val

\* The number of input gates of the constraint system keyed by the name
InputGates(s, name) ==
    Cardinality({i \in DOMAIN s :
                    /\ s[i].label = name
                    /\ s[i].kind \in {"alloc_boolean", "alloc_uint32"}})

\* The last Definition applied Or, And or a binary field operator to two
\* variables
LastIsVariablePair ==
    /\ LastIsBinary
    /\ BinaryOfLast.l.k \in {"BVariable", "FVariable"}
    /\ BinaryOfLast.r.k \in {"BVariable", "FVariable"}

OperandNames == <<BinaryOfLast.l.name, BinaryOfLast.r.name>>

\* The names a program of the model reads without binding them
UnboundNames == {"w", "u", "v"}

\* The name resolved twice in a row as a boolean and as a field operand, from
\* the bindings and the constraint system of the state
BoolOnce(name) == get_bool_value(resolved_variables, argument, cs, BVariable(name))
BoolTwice(name) ==
    get_bool_value(resolved_variables, argument, BoolOnce(name).cs, BVariable(name))
FieldOnce(name) == get_u32_value(resolved_variables, argument, cs, FVariable(name))
FieldTwice(name) ==
    get_u32_value(resolved_variables, argument, FieldOnce(name).cs, FVariable(name))

\* C20: an unbound variable resolved as a boolean or field operand gets an
\* input gate keyed by its name and stays unbound, so each occurrence gets
\* another one: the input gates added for a name are as many as the times
\* it was resolved.
C20_UnboundReadsNeverBind ==
    /\ (LastIsVariablePair /\ last.err = NoError) =>
          \A name \in {OperandNames[1], OperandNames[2]} \ DOMAIN last.rv :
              /\ InputGates(cs, name) =
                    InputGates(last.cs, name)
                        + Cardinality({i \in 1 .. 2 : OperandNames[i] = name})
              /\ name # last.statement.variable => name \notin DOMAIN resolved_variables
    /\ \A name \in UnboundNames \ DOMAIN resolved_variables :
          /\ BoolOnce(name).err = NoError =>
                /\ OneInputGate(cs, BoolOnce(name).cs, name)
                /\ OneInputGate(BoolOnce(name).cs, BoolTwice(name).cs, name)
          /\ FieldOnce(name).err = NoError =>
                /\ OneInputGate(cs, FieldOnce(name).cs, name)
                /\ OneInputGate(FieldOnce(name).cs, FieldTwice(name).cs, name)

\* w read unbound by an earlier Definition, then twice by one Or: three
\* input gates keyed w, and w still unbound
C20_Witness ==
    /\ LastIsVariablePair
    /\ last.err = NoError
    /\ OperandNames = <<"w", "w">>
    /\ InputGates(last.cs, "w") = 1
    /\ InputGates(cs, "w") = 3
    /\ "w" \notin DOMAIN resolved_variables

(***************************************************************************)
(* Properties of the Api (ApiSpec).                                        *)
(***************************************************************************)
\* The token the Api was given last: by new or by the latest set_auth_token
TokenGivenLast == tokens_given[Len(tokens_given)]

\* The route of the given name
RouteNamed(name) == CHOOSE route \in Routes : route.name = name

\* A step of the Api that is a run_route call: set_auth_token is the only
\* other call, and it lengthens tokens_given.
RunRouteStep == tokens_given' = tokens_given

\* C11: the request a run_route call sends carries a bearer token exactly
\* when the route's AUTH is true and a token is held; the token is the one
\* given last, and a Login request carries none.
C11_BearerFollowsAuthAndLastToken ==
    [][(RunRouteStep /\ request'.sent) =>
          /\ request'.bearer.some <=>
                (AUTH(RouteNamed(request'.route)) /\ TokenGivenLast.some)
          /\ request'.bearer.some => request'.bearer = TokenGivenLast
          /\ request'.route = "Login" => request'.bearer = NoToken]_vars

\* A request that carries the second of two tokens set, and a Login request
\* sent while a token is held
C11_Witness ==
    /\ Len(tokens_given) = 3
    /\ tokens_given[2] # tokens_given[3]
    /\ request.sent
    /\ \/ request.bearer = tokens_given[3]
       \/ request.route = "Login"

\* C12: Profile::process returns Ok(None) for every status other than 200,
\* and Some(username) only for status 200.
C12_ProfileNon200IsNone ==
    (request.sent /\ request.route = "Profile" /\ response.received) =>
        /\ response.status # 200 => output = OkNone
        /\ (output.kind = "Ok" /\ output.some) => response.status = 200

\* A Profile request answered 401
C12_Witness ==
    /\ request.sent
    /\ request.route = "Profile"
    /\ response.received
    /\ response.status = 401
    /\ output = OkNone

====
